---- MODULE Spec2Model ----
(***************************************************************************)
(* mwtest execution engine: the three backends of src/py/mwtest.py         *)
(* (run_all, run_all_multiprocessing, run_all_xge), the XGE queue client   *)
(* of src/py/xge.py with its background reader thread, and the result      *)
(* accumulation of src/py/report.py.                                       *)
(***************************************************************************)
EXTENDS Integers, Sequences, FiniteSets, TLC

\* ------------------------------------------------------------ bounds
\* largest --repeat-if-failed value explored
MaxRepeat == 1
\* largest number of transient-fault result lines the farm produces in a run
MaxFlakes == 1
\* mwtest.py:153 multiprocessing.cpu_count() of the host
Concurrency == 2

\* ------------------------------------------------------------ values
\* Python's None
None == "None"
\* the empty dict {}
EmptyDict == [x \in {} |-> None]

\* exit codes of a test command per genuine execution; the last one repeats
Pass == <<0>>
Fail == <<1>>
FailThenPass == <<1, 0>>
Plans == {Pass, Fail, FailThenPass}

\* mwtest.py:292 TestGroup (app_properties is looked up by app_name, see
\* AppCommand; testcases_path only shapes the command line and is left out;
\* artifacts_path is None or a path)
TestGroup(app, ids, art, par, x) ==
    [app_name |-> app, test_ids |-> ids, artifacts_path |-> art,
     parallel |-> par, xge |-> x]

\* the group lists handed to the backends
Layouts ==
    { << TestGroup("app1", <<"A">>, "out", TRUE, TRUE) >>,
      << TestGroup("app2", <<"A", "B">>, "out", TRUE, TRUE) >>,
      << TestGroup("app1", <<"A">>, "out", TRUE, TRUE),
         TestGroup("gtest", <<"B">>, None, FALSE, FALSE) >>,
      << TestGroup("app1", <<"A", "B", "C">>, None, TRUE, TRUE) >> }

RECURSIVE SeqToSet(_)
SeqToSet(s) == IF s = <<>> THEN {} ELSE {Head(s)} \cup SeqToSet(Tail(s))

TestsOf(gs) == UNION { SeqToSet(gs[i].test_ids) : i \in DOMAIN gs }

\* the scenario of three tests: A exits 0, B always exits 1, C exits 0
ThreeTests(gs) == Cardinality(TestsOf(gs)) = 3
ThreePlan == [t \in {"A", "B", "C"} |-> IF t = "B" THEN Fail ELSE Pass]

PlansFor(gs) ==
    IF ThreeTests(gs) THEN {ThreePlan} ELSE [TestsOf(gs) -> Plans]

\* the group lists handed to the two local backends
LocalLayouts ==
    { << TestGroup("app1", <<"A", "B">>, "out", TRUE, FALSE),
         TestGroup("gtest", <<"B", "A">>, None, FALSE, FALSE) >>,
      << TestGroup("gtest", <<"B", "A">>, None, FALSE, FALSE),
         TestGroup("app1", <<"A", "B">>, "out", TRUE, FALSE) >>,
      << TestGroup("app1", <<"A", "B", "C">>, None, FALSE, FALSE) >>,
      << TestGroup("app2", <<"C", "B", "A">>, "out", TRUE, FALSE) >> }

\* ------------------------------------------------------------ state
VARIABLES
    backend,            \* "xge" | "pool" | "seq": which run_all* is running
    groups,             \* tests_with_ids
    repeat_if_failed,   \* args.repeat_if_failed
    plan,               \* test id -> exit codes of its executions
    pc,                 \* position of the coordinator in run_all_xge
    todo,               \* initial submissions still to enqueue
    queued_tests,       \* XGEQueue.queued_tests
    queue_id_counter,   \* XGEQueue.queue_id_counter
    repeats,            \* run_all_xge: repeats
    result,             \* XGE.poll: result
    finalLeft,          \* entries the final loop of run_all_xge has not yielded
    running,            \* XGE.running
    results,            \* XGE.results
    jobs,               \* messages written to the socket whose job has not ended
    stdout,             \* lines of the farm console's stdout not yet read
    child,              \* XGE.child, the farm console: "none" | "running" | "exited"
    sock,               \* XGE.socket: "none" | "open" | "broken" | "closed"
    port,               \* XGE.__init__: port
    server,             \* the server process: "none" | "bound" | "listening"
    terminated,         \* history: XGE.close called child.terminate()
    closeSaw,           \* history: what the is_done() of XGE.close found
    readerPc,           \* position of client_async_reader
    readerLine,         \* the (id, retcode, output) the reader is handling
    gi,                 \* run_all / run_all_multiprocessing: index of test_group
    left,               \* run: test ids of the group not yet run
    proc,               \* run_exe: the child process the coordinator waits for
    tasks,              \* Pool: tasks of the imap_unordered not yet taken
    workers,            \* Pool: the task each worker process is running, if any
    outq,               \* Pool: results the workers have delivered
    suspended,          \* the generator is suspended at a yield, its consumer runs
    sigint,             \* the operator's interrupt: "none", or where it was raised
    pool,               \* run_all_multiprocessing: pool ("none" | "up" | "terminated")
    emitted,            \* the stream of (name, id, result) yielded so far
    failed,             \* report_results: failed
    emitInfo,           \* history: where each element of emitted came from
    started,            \* history: the child processes started, in order
    exited,             \* history: the number of child processes that exited
    issued,             \* history: every enqueue, in order
    resolved,           \* history: every call of command_for, in order
    moved,              \* history: every call of adaptors.move_artifacts, in order
    attempts,           \* history: genuine executions ended, per test id
    flakes,             \* history: transient-fault lines produced
    flaked,             \* history: ids whose job ended in the transient fault
    seen,               \* history: ids whose result line the reader has taken
    sent,               \* history: every message written to the socket, and by whom
    timedOut,           \* history: a poll ran into its timeout
    polled,             \* history: ids poll returned to the coordinator
    breakInfo,          \* history: state at the moment the result loop ended
    srvPc,              \* xge.py server: position of the server process
    srvInput,           \* server: every byte the client writes before it closes
    srvWire,            \* server: the bytes not yet returned by a recv
    srvBuffer,          \* recv_lines: buffer
    srvSubmitted,       \* server: the xgSubmit processes started, in order
    srvAccepted,        \* server: the number of connections accepted
    srvRecvs,           \* history: the length of every chunk recv returned
    cmdOut,             \* the bytes a command writes to its stdout
    cmdErr,             \* the bytes a command writes to its stderr
    cmdCode,            \* the command's exit code
    wrapId,             \* xge.py wrap: sys.argv[2]
    wrapPc,             \* position of the wrap process and of the reader's decoding
    wrapPrinted,        \* wrap: the line printed on stdout
    wrapExit,           \* wrap: the exit code of the wrap process
    wrapDecoded,        \* the (id, retcode, output) the reader decodes from the line
    direct              \* (returncode, output) of adaptors.run_exe for the command

inputVars == <<backend, groups, repeat_if_failed, plan>>
coordVars == <<pc, todo, queued_tests, queue_id_counter, repeats, result, finalLeft>>
xgeVars == <<running, results, jobs>>
readerVars == <<stdout, readerPc, readerLine>>
localVars == <<gi, left, proc, tasks, workers, outq, suspended, started, exited>>
sigVars == <<sigint, pool>>
sessVars == <<child, sock, port, server, terminated, closeSaw>>
sinkVars == <<emitted, failed, emitInfo>>
histVars == <<issued, resolved, moved, attempts, flakes, flaked, seen, sent, timedOut, polled, breakInfo>>
serverVars == <<srvPc, srvInput, srvWire, srvBuffer, srvSubmitted, srvAccepted, srvRecvs>>
wrapVars == <<cmdOut, cmdErr, cmdCode, wrapId, wrapPc, wrapPrinted, wrapExit, wrapDecoded,
              direct>>
\* the state of the two sub-modes of xge.py, which run as processes of their own
toolVars == <<serverVars, wrapVars>>
vars == <<inputVars, coordVars, xgeVars, readerVars, sessVars, localVars, sigVars,
          sinkVars, histVars, toolVars>>

\* ------------------------------------------------------------ helpers
Last(s) == s[Len(s)]

\* d[k] = v of a Python dict
DictSet(d, k, v) == [x \in DOMAIN d \cup {k} |-> IF x = k THEN v ELSE d[x]]
\* del d[k]
DictDel(d, k) == [x \in DOMAIN d \ {k} |-> d[x]]
\* d.get(k, default)
DictGet(d, k, default) == IF k \in DOMAIN d THEN d[k] ELSE default

\* mwtest.py:239 split_by_xge, as indices into groups
XgeGroups(gs) == SelectSeq([i \in DOMAIN gs |-> i], LAMBDA i : gs[i].xge)
LocalGroups(gs) == SelectSeq([i \in DOMAIN gs |-> i], LAMBDA i : ~gs[i].xge)

RECURSIVE Flatten(_, _)
\* the (test id, group) pairs of the groups order, group by group
Flatten(gs, order) ==
    IF order = <<>> THEN <<>>
    ELSE [j \in DOMAIN gs[Head(order)].test_ids |->
             <<gs[Head(order)].test_ids[j], Head(order)>>]
         \o Flatten(gs, Tail(order))

\* mwtest.py:172 the submission order: local_tests + xge_tests
SubmitOrderAsListed(gs) == Flatten(gs, [i \in DOMAIN gs |-> i])
SubmitOrder(gs) == Flatten(gs, LocalGroups(gs) \o XgeGroups(gs))

\* str(n) of a natural number, as its decimal digits
Digit(d) == <<"0", "1", "2", "3", "4", "5", "6", "7", "8", "9">>[d + 1]
RECURSIVE str(_)
str(n) == IF n < 10 THEN <<Digit(n)>> ELSE str(n \div 10) \o <<Digit(n % 10)>>

DigitValue(c) == CHOOSE d \in 0..9 : Digit(d) = c
RECURSIVE int(_)
\* int(s) of a digit string
int(s) ==
    IF Len(s) = 1 THEN DigitValue(s[1])
    ELSE 10 * int(SubSeq(s, 1, Len(s) - 1)) + DigitValue(Last(s))

\* mwtest.py:93 generate_tmp_dir: None without an artifacts dir, else a fresh
\* name (uuid4); n is the number of names made before
generate_tmp_dirReused(artifacts_dir, n) ==
    IF artifacts_dir = None THEN None ELSE <<artifacts_dir, "tmp", 0>>
generate_tmp_dir(artifacts_dir, n) ==
    IF artifacts_dir = None THEN None ELSE <<artifacts_dir, "tmp", n>>

\* config.py:39-44 the working directory get_command_for returns for the app
app_cwd(app_name) == <<"cwd", app_name>>

\* apps.json through config.py:32 the command template of an app, as words
AppCommand(app_name) ==
    CASE app_name = "app1" -> <<"exe", "{{input}}", "{{out_dir}}">>
      [] app_name = "app2" -> <<"exe", "{{input}}", "{{out_file}}">>
      [] OTHER -> <<"exe", "{{input}}">>

\* str.replace on the words of a command
Replace(command, old, new) ==
    [i \in DOMAIN command |-> IF command[i] = old THEN new ELSE command[i]]

\* config.py:46 command.find("{{out_dir}}") >= 0
HasOutDirAlways(command) == TRUE
HasOutDir(command) == \E i \in DOMAIN command : command[i] = "{{out_dir}}"

\* config.py:38 AppProperties.get_command_for: the command, and the
\* directories os.makedirs creates on the way (config.py:47)
get_command_for(template, input, out_dir) ==
    LET command == Replace(template, "{{input}}", input) IN
    IF out_dir # None
    THEN IF HasOutDir(command)
         THEN [cmd |-> Replace(command, "{{out_dir}}", out_dir), makedirs |-> {out_dir}]
         ELSE [cmd |-> Replace(command, "{{out_file}}", out_dir), makedirs |-> {}]
    ELSE [cmd |-> command, makedirs |-> {}]

\* mwtest.py:116 command_for of a test of group g; n as in generate_tmp_dir
command_for(test_id, g, n) ==
    LET tmp_dir == generate_tmp_dir(groups[g].artifacts_path, n)
        c == get_command_for(AppCommand(groups[g].app_name), test_id, tmp_dir)
    IN  [cmd |-> c.cmd, cwd |-> app_cwd(groups[g].app_name), tmp_dir |-> tmp_dir,
         makedirs |-> c.makedirs, group |-> g]

\* adaptors.py:34 move_artifacts: the report of the files moved out of tmp_path
move_artifacts(tmp_path) == <<[location |-> tmp_path]>>

\* mwtest.py:110 if tmp_path
HandsOffAlways(tmp_path) == TRUE
HandsOff(tmp_path) == tmp_path # None

\* mwtest.py:107 process_result
process_resultFailed(returncode, output, tmp_path) ==
    [success |-> FALSE, output |-> output,
     artifacts |-> IF HandsOff(tmp_path) THEN move_artifacts(tmp_path) ELSE <<>>]
process_result(returncode, output, tmp_path) ==
    [success |-> returncode = 0,
     output |-> output,
     artifacts |-> IF HandsOff(tmp_path) THEN move_artifacts(tmp_path) ELSE <<>>]

\* xge.py:50 the transient-fault signature test
FlakeOutput == "Cannot get file record: Null position"
IsFlake(output) == output = FlakeOutput

\* xge.py:82-83 / xge.py:88-89 the message of run / run_local: the mode, the
\* caption, the cwd and the command wrapped with the id
Message(mode, cmd_id, caption, cwd) ==
    [mode |-> mode, caption |-> caption, cwd |-> cwd, wrap |-> cmd_id]

\* mwtest.py:215-218 enqueue picks run_local or run, which differ in the mode
RunModeRemote(local) == "remote"
RunMode(local) == IF local THEN "local" ELSE "remote"

\* xge.py:33-39 the server's submission for one line: only the mode 'local'
\* gets /allowremote=off
xgSubmit(line) ==
    [allowremote |-> line.mode # "local", caption |-> line.caption,
     cwd |-> line.cwd, wrap |-> line.wrap]

\* xge.py:84 / xge.py:90 self.running[cmd_id] = msg
StoreDropped(r, cmd_id, msg) == r
Store(r, cmd_id, msg) == DictSet(r, cmd_id, msg)

\* mwtest.py:214 the counter after issuing an id
NextCounterSame(c) == c
NextCounter(c) == c + 1

\* mwtest.py:191 the retry test
MayRepeatInclusive(n_repeated, max) == n_repeated <= max
MayRepeat(n_repeated, max) == n_repeated < max

\* mwtest.py:190-192 the key of repeats: the test id, whatever its group
RepeatKeyPerGroup(test_id, g) == <<test_id, g>>
RepeatKey(test_id, g) == test_id

\* mwtest.py:215 the value enqueue stores in queued_tests
PendingWithoutTmp(test_id, test_group, tmp_dir) == <<test_id, test_group, None>>
Pending(test_id, test_group, tmp_dir) == <<test_id, test_group, tmp_dir>>

\* mwtest.py:233 del self.queued_tests[queue_id]
ForgetNever(qt, queue_id) == qt
Forget(qt, queue_id) == DictDel(qt, queue_id)

\* mwtest.py:221 has_tasks: queued_tests != [] compares a dict with a list,
\* which Python finds unequal whatever the dict holds
has_tasks(qt) == TRUE

\* mwtest.py:198 the result yielded for an entry left in queued_tests
FailedToStart == [success |-> FALSE, output |-> "Failed to start!"]

\* mwtest.py:197 the entries the final loop walks
FinalEntriesRunning(qt, r) == {q \in DOMAIN qt : str(q) \in DOMAIN r}
FinalEntries(qt, r) == DOMAIN qt

\* xge.py:53 del xge.running[id]
FinishedKept(r, id) == r
Finished(r, id) == DictDel(r, id)

\* xge.py:109 is_done, its two reads
RunningEmptyAlways(r) == TRUE
RunningEmpty(r) == r = EmptyDict
ResultsEmptyNever(rs) == FALSE
ResultsEmpty(rs) == rs = <<>>

\* report.py:25-31 the update of failed for one result
Report(f, name, id, success) ==
    LET k == <<name, id>> IN
    IF ~success
    THEN IF k \notin DOMAIN f THEN DictSet(f, k, <<1, 0>>)
         ELSE DictSet(f, k, <<f[k][1] + 1, f[k][2]>>)
    ELSE IF k \in DOMAIN f THEN DictSet(f, k, <<f[k][1], f[k][2] + 1>>)
         ELSE f

\* report.py:36-37
instable_list(f) == {k \in DOMAIN f : f[k][2] # 0}
failed_list(f) == {k \in DOMAIN f : f[k][2] = 0}
\* report.py:34-55
overall_success(f) == failed_list(f) = {}

\* the stream element and the sink's update for it (report.py:17)
Emit(name, id, res, info) ==
    /\ emitted' = Append(emitted, <<name, id, res>>)
    /\ failed' = Report(failed, name, id, res.success)
    /\ emitInfo' = Append(emitInfo, info)

\* mwtest.py:111 the call of adaptors.move_artifacts that process_result
\* makes, with its arguments and with the number of enqueues and of yields
\* made before it
Handoff(test_id, returncode, tmp_path) ==
    IF HandsOff(tmp_path)
    THEN <<[test_id |-> test_id, success |-> returncode = 0, tmp_path |-> tmp_path,
            issued |-> Len(issued), emitted |-> Len(emitted)]>>
    ELSE <<>>

\* ------------------------------------------------------------ XGEQueue
\* xge.py:30 the port the server printed
ServerPort == 5
\* what socket.send does: on an open connection the bytes reach the server;
\* after close() it raises; on a connection the peer has closed it raises
\* or the bytes are lost
SendOutcomes(s) ==
    IF s = "open" THEN {"sent"}
    ELSE IF s = "broken" THEN {"raised", "lost"} ELSE {"raised"}

\* mwtest.py:211 XGEQueue.enqueue on top of the pending map qt, with
\* xge.py:81 XGE.run / xge.py:87 XGE.run_local: the message is stored in
\* running and written to the socket, where the server (xge.py:32-39) turns
\* it into a farm job; outcome is what the send did
enqueue(qt, test_id, g, local, retry, outcome) ==
    LET c == command_for(test_id, g, Len(issued))
        tmp_dir == c.tmp_dir
        queue_id == queue_id_counter
        msg == Message(RunMode(local), str(queue_id), test_id, c.cwd)
    IN  /\ queue_id_counter' = NextCounter(queue_id_counter)
        /\ queued_tests' = DictSet(qt, queue_id, Pending(test_id, g, tmp_dir))
        /\ running' = Store(running, str(queue_id), msg)
        /\ jobs' = (IF outcome = "sent" THEN jobs \cup {xgSubmit(msg)} ELSE jobs)
        /\ sent' = (IF outcome = "sent"
                    THEN sent \cup {[msg |-> msg, by |-> "coordinator"]} ELSE sent)
        /\ resolved' = Append(resolved, c)
        /\ issued' = Append(issued, [id |-> queue_id, test |-> test_id, group |-> g,
                                     local |-> local, retry |-> retry])

\* mwtest.py:172-174 one initial submission
Submit ==
    /\ backend = "xge" /\ UNCHANGED localVars /\ pc = "submit" /\ todo # <<>>
    /\ \E outcome \in SendOutcomes(sock) :
          /\ enqueue(queued_tests, Head(todo)[1], Head(todo)[2],
                     ~groups[Head(todo)[2]].xge, FALSE, outcome)
          \* socket.error leaves run_all_xge
          /\ pc' = (IF outcome = "raised" THEN "error" ELSE pc)
    /\ todo' = Tail(todo)
    /\ UNCHANGED <<inputVars, toolVars, sigVars, sessVars, moved, repeats, result, finalLeft, results, readerVars,
                   sinkVars, attempts, flakes, flaked, seen, timedOut, polled, breakInfo>>

\* the result loop ends: what is left in queued_tests is yielded next
Break(cause) ==
    /\ pc' = "final"
    /\ finalLeft' = FinalEntries(queued_tests, running)
    /\ breakInfo' = [cause |-> cause, pending |-> DOMAIN queued_tests,
                     issued |-> Len(issued), emitted |-> Len(emitted)]

\* mwtest.py:176-178 repeats = {} and the test of the while loop
LoopHead ==
    /\ backend = "xge" /\ UNCHANGED localVars
    /\ \/ pc = "submit" /\ todo = <<>>
       \/ pc = "loop"
    /\ IF has_tasks(queued_tests)
       THEN pc' = "poll" /\ UNCHANGED <<finalLeft, breakInfo>>
       ELSE Break("no tasks")
    /\ UNCHANGED <<inputVars, toolVars, sigVars, sessVars, todo, queued_tests, queue_id_counter, repeats, result,
                   xgeVars, readerVars, sinkVars, issued, resolved, moved, attempts, flakes, flaked, seen, sent, timedOut,
                   polled>>

\* xge.py:95 results.pop(): the place of the element the pop takes
PopFirst(rs) == 1
Pop(rs) == Len(rs)
\* a list without its element at place k
Without(rs, k) == SubSeq(rs, 1, k - 1) \o SubSeq(rs, k + 1, Len(rs))

\* xge.py:93 XGE.get_result: pops the last buffered result
get_result(next) ==
    IF results # <<>>
    THEN /\ result' = results[Pop(results)]
         /\ results' = Without(results, Pop(results))
         /\ polled' = Append(polled, results[Pop(results)][1])
         /\ pc' = "correlate"
    ELSE /\ pc' = next
         /\ UNCHANGED <<result, results, polled>>

\* xge.py:99-102 XGE.poll up to the loop
PollFirst ==
    /\ backend = "xge" /\ UNCHANGED localVars /\ pc = "poll"
    /\ get_result("is_done")
    /\ UNCHANGED <<inputVars, toolVars, sigVars, sessVars, todo, queued_tests, queue_id_counter, repeats, finalLeft,
                   running, jobs, readerVars, sinkVars, issued, resolved, moved, attempts, flakes, flaked, seen,
                   sent, timedOut, breakInfo>>

\* xge.py:103/109 is_done reads running; a non-empty map short-circuits
PollIsDoneRunning ==
    /\ backend = "xge" /\ UNCHANGED localVars /\ pc = "is_done"
    /\ pc' = IF RunningEmpty(running) THEN "is_done2" ELSE "time"
    /\ UNCHANGED <<inputVars, toolVars, sigVars, sessVars, todo, queued_tests, queue_id_counter, repeats, result,
                   finalLeft, xgeVars, readerVars, sinkVars, histVars>>

\* xge.py:103/109 is_done reads results; when done, poll returns None and
\* mwtest.py:226, 180 pass the None on to the break
PollIsDoneResults ==
    /\ backend = "xge" /\ UNCHANGED localVars /\ pc = "is_done2"
    /\ IF ResultsEmpty(results)
       THEN Break("done")
       ELSE pc' = "time" /\ UNCHANGED <<finalLeft, breakInfo>>
    /\ UNCHANGED <<inputVars, toolVars, sigVars, sessVars, todo, queued_tests, queue_id_counter, repeats, result,
                   xgeVars, readerVars, sinkVars, issued, resolved, moved, attempts, flakes, flaked, seen, sent, timedOut,
                   polled>>

\* xge.py:103 (time.time() - start) < timeout: the clock is free
PollTimeLeft ==
    /\ backend = "xge" /\ UNCHANGED localVars /\ pc = "time"
    /\ pc' = "sleep"
    /\ UNCHANGED <<inputVars, toolVars, sigVars, sessVars, todo, queued_tests, queue_id_counter, repeats, result,
                   finalLeft, xgeVars, readerVars, sinkVars, histVars>>

PollTimeout ==
    /\ backend = "xge" /\ UNCHANGED localVars /\ pc = "time"
    /\ timedOut' = TRUE
    /\ Break("timeout")
    /\ UNCHANGED <<inputVars, toolVars, sigVars, sessVars, todo, queued_tests, queue_id_counter, repeats, result,
                   xgeVars, readerVars, sinkVars, issued, resolved, moved, attempts, flakes, flaked, seen, sent, polled>>

\* xge.py:104-105 sleep, then get_result
PollSleep ==
    /\ backend = "xge" /\ UNCHANGED localVars /\ pc = "sleep"
    /\ get_result("is_done")
    /\ UNCHANGED <<inputVars, toolVars, sigVars, sessVars, todo, queued_tests, queue_id_counter, repeats, finalLeft,
                   running, jobs, readerVars, sinkVars, issued, resolved, moved, attempts, flakes, flaked, seen,
                   sent, timedOut, breakInfo>>

\* mwtest.py:228-235 XGEQueue.get_result after the poll, and mwtest.py:183-195
\* the body of the result loop up to the yield
Observe ==
    /\ backend = "xge" /\ UNCHANGED localVars /\ pc = "correlate"
    /\ LET queue_id == int(result[1])
           returncode == result[2]
           output == result[3]
       IN IF queue_id \in DOMAIN queued_tests
          THEN LET test_id == queued_tests[queue_id][1]
                   g == queued_tests[queue_id][2]
                   tmp_dir == queued_tests[queue_id][3]
                   qt == Forget(queued_tests, queue_id)
                   res == process_result(returncode, output, tmp_dir)
                   n_repeated == DictGet(repeats, RepeatKey(test_id, g), 0)
                   yield == /\ Emit(groups[g].app_name, test_id, res,
                                    [from |-> "loop", group |-> g, id |-> queue_id])
                            /\ pc' = "loop"
               IN /\ moved' = moved \o Handoff(test_id, returncode, tmp_dir)
                  /\ IF ~res.success /\ MayRepeat(n_repeated, repeat_if_failed)
                     THEN /\ repeats' = DictSet(repeats, RepeatKey(test_id, g), n_repeated + 1)
                          /\ \E outcome \in SendOutcomes(sock) :
                                /\ enqueue(qt, test_id, g, ~groups[g].xge, TRUE, outcome)
                                /\ IF outcome = "raised"
                                   THEN \* socket.error leaves run_all_xge
                                        pc' = "error" /\ UNCHANGED sinkVars
                                   ELSE yield
                     ELSE /\ queued_tests' = qt
                          /\ UNCHANGED <<repeats, queue_id_counter, running, jobs,
                                         issued, resolved, sent>>
                          /\ yield
                  /\ UNCHANGED <<finalLeft, breakInfo>>
          ELSE /\ Break("unknown id")
               /\ UNCHANGED <<queued_tests, repeats, queue_id_counter, running, jobs,
                              issued, resolved, moved, sent, sinkVars>>
    /\ UNCHANGED <<inputVars, toolVars, sigVars, sessVars, todo, result, results,
                   readerVars, attempts, flakes, flaked, seen, timedOut, polled>>

\* mwtest.py:197-198 one entry of queued_tests, in the dict's order
FinalYield ==
    /\ backend = "xge" /\ UNCHANGED localVars /\ pc = "final"
    /\ \E q \in finalLeft :
          /\ Emit(groups[queued_tests[q][2]].app_name, queued_tests[q][1], FailedToStart,
                  [from |-> "final", group |-> queued_tests[q][2], id |-> q])
          /\ finalLeft' = finalLeft \ {q}
    /\ UNCHANGED <<inputVars, toolVars, sigVars, sessVars, pc, todo, queued_tests, queue_id_counter, repeats, result,
                   xgeVars, readerVars, histVars>>

\* the generator is exhausted; report.py:33-55 closes the report
Finish ==
    /\ backend = "xge" /\ UNCHANGED localVars /\ pc = "final" /\ finalLeft = {}
    /\ pc' = "done"
    /\ UNCHANGED <<inputVars, toolVars, sigVars, sessVars, todo, queued_tests, queue_id_counter, repeats, result,
                   finalLeft, xgeVars, readerVars, sinkVars, histVars>>

\* ------------------------------------------------------------ the farm
\* xge.py:126-132 wrap mode: a submitted job runs the command and prints its
\* wrapped line on the farm console's stdout
PlanExit(t, n) == IF n <= Len(plan[t]) THEN plan[t][n] ELSE Last(plan[t])

JobEnds ==
    /\ backend = "xge" /\ UNCHANGED localVars
    /\ \E msg \in jobs :
          LET rc == PlanExit(msg.caption, attempts[msg.caption] + 1) IN
          /\ jobs' = jobs \ {msg}
          /\ stdout' = Append(stdout, <<msg.wrap, rc, IF rc = 0 THEN "ok" ELSE "err">>)
          /\ attempts' = [attempts EXCEPT ![msg.caption] = @ + 1]
    /\ UNCHANGED <<inputVars, toolVars, sigVars, sessVars, coordVars, running, results, readerPc, readerLine,
                   sinkVars, issued, resolved, moved, flakes, flaked, seen, sent, timedOut, polled, breakInfo>>

\* the farm tool fails the job with its transient fault instead
JobFlakes ==
    /\ backend = "xge" /\ UNCHANGED localVars /\ flakes < MaxFlakes
    /\ \E msg \in jobs :
          /\ jobs' = jobs \ {msg}
          /\ stdout' = Append(stdout, <<msg.wrap, 1, FlakeOutput>>)
          /\ flaked' = flaked \cup {msg.wrap}
    /\ flakes' = flakes + 1
    /\ UNCHANGED <<inputVars, toolVars, sigVars, sessVars, coordVars, running, results, readerPc, readerLine,
                   sinkVars, issued, resolved, moved, attempts, seen, sent, timedOut, polled, breakInfo>>

\* ------------------------------------------------------------ the reader
\* xge.py:43-51 the reader takes a wrapped line; on the transient-fault
\* signature it writes the stored message to the socket again
ReaderReadline ==
    /\ backend = "xge" /\ UNCHANGED localVars /\ readerPc = "read" /\ stdout # <<>>
    /\ stdout' = Tail(stdout)
    /\ IF IsFlake(Head(stdout)[3])
       THEN \E outcome \in SendOutcomes(sock) :
            IF Head(stdout)[1] \in DOMAIN running /\ outcome # "raised"
            THEN /\ jobs' = (IF outcome = "sent"
                             THEN jobs \cup {xgSubmit(running[Head(stdout)[1]])}
                             ELSE jobs)
                 /\ sent' = (IF outcome = "sent"
                             THEN sent \cup {[msg |-> running[Head(stdout)[1]],
                                               by |-> "reader"]}
                             ELSE sent)
                 /\ UNCHANGED <<readerPc, readerLine, seen>>
            ELSE \* KeyError or socket.error: the thread dies
                 /\ readerPc' = "crashed"
                 /\ UNCHANGED <<jobs, sent, readerLine, seen>>
       ELSE /\ readerPc' = "del"
            /\ readerLine' = Head(stdout)
            /\ seen' = seen \cup {Head(stdout)[1]}
            /\ UNCHANGED <<jobs, sent>>
    /\ UNCHANGED <<inputVars, toolVars, sigVars, sessVars, coordVars, running, results, sinkVars, issued, resolved, moved, attempts,
                   flakes, flaked, timedOut, polled, breakInfo>>

\* xge.py:53 del xge.running[id]
ReaderDel ==
    /\ backend = "xge" /\ UNCHANGED localVars /\ readerPc = "del"
    /\ IF readerLine[1] \in DOMAIN running
       THEN running' = Finished(running, readerLine[1]) /\ readerPc' = "append"
       ELSE \* KeyError: the thread dies
            running' = running /\ readerPc' = "crashed"
    /\ UNCHANGED <<inputVars, toolVars, sigVars, sessVars, coordVars, results, jobs, stdout, readerLine, sinkVars,
                   histVars>>

\* xge.py:54 results.append((id, retcode, output))
ReaderAppend ==
    /\ backend = "xge" /\ UNCHANGED localVars /\ readerPc = "append"
    /\ results' = Append(results, readerLine)
    /\ readerPc' = "read"
    /\ readerLine' = None
    /\ UNCHANGED <<inputVars, toolVars, sigVars, sessVars, coordVars, running, jobs, stdout, sinkVars, histVars>>

\* ------------------------------------------------------------ local backends
\* mwtest.py:129 the order run() walks a group's test ids in
RunOrderReversed(ids) == [j \in DOMAIN ids |-> ids[Len(ids) + 1 - j]]
RunOrder(ids) == ids

\* mwtest.py:157 which groups run_all_multiprocessing hands to the pool
UsePoolAlways(g) == TRUE
UsePool(g) == g.parallel

Local == backend \in {"seq", "pool"}
xgeState == <<todo, queued_tests, queue_id_counter, repeats, result, finalLeft,
              xgeVars, readerVars, issued, flakes, flaked, seen, sent, timedOut, polled,
              breakInfo>>

\* mwtest.py:138 / mwtest.py:156 the next test_group of the for loop
GroupStart ==
    /\ Local /\ ~suspended /\ pc = "group" /\ gi < Len(groups)
    /\ gi' = gi + 1
    /\ IF backend = "pool" /\ UsePool(groups[gi + 1])
       THEN \* mwtest.py:134 imap_unordered over the group's (t, test_group)
            /\ tasks' = [j \in DOMAIN groups[gi + 1].test_ids |->
                             <<groups[gi + 1].test_ids[j], gi + 1>>]
            /\ pc' = "collect"
            /\ UNCHANGED left
       ELSE \* mwtest.py:128 run(test_group)
            /\ left' = RunOrder(groups[gi + 1].test_ids)
            /\ pc' = "run"
            /\ UNCHANGED tasks
    /\ UNCHANGED <<inputVars, toolVars, sigVars, sessVars, xgeState, proc, workers, outq, suspended, started, resolved, moved, exited, sinkVars,
                   attempts>>

\* mwtest.py:99-101 run_one up to the start of the child (adaptors.py:23)
RunStart ==
    /\ Local /\ ~suspended /\ pc = "run" /\ left # <<>>
    /\ proc' = [test |-> Head(left),
                tmp_dir |-> command_for(Head(left), gi, Len(started)).tmp_dir]
    /\ resolved' = Append(resolved, command_for(Head(left), gi, Len(started)))
    /\ started' = Append(started, <<Head(left), gi>>)
    /\ pc' = "wait"
    /\ UNCHANGED <<inputVars, toolVars, sigVars, sessVars, moved, xgeState, gi, left, tasks, workers, outq, suspended, exited, sinkVars,
                   attempts>>

\* adaptors.py:24 communicate() returns when the child has exited
RunExit ==
    /\ Local /\ ~suspended /\ pc = "wait"
    /\ LET t == proc.test
           rc == IF attempts[t] + 1 <= Len(plan[t]) THEN plan[t][attempts[t] + 1]
                 ELSE Last(plan[t])
       IN /\ proc' = [test |-> t, tmp_dir |-> proc.tmp_dir, returncode |-> rc,
                      output |-> IF rc = 0 THEN "ok" ELSE "err"]
          /\ attempts' = [attempts EXCEPT ![t] = @ + 1]
    /\ exited' = exited + 1
    /\ pc' = "yield"
    /\ UNCHANGED <<inputVars, toolVars, sigVars, sessVars, xgeState, gi, left, tasks, workers, outq, suspended, started, resolved, moved, sinkVars>>

\* mwtest.py:102-104 and the yield of mwtest.py:130
RunYield ==
    /\ Local /\ ~suspended /\ pc = "yield"
    /\ suspended' = TRUE
    /\ Emit(groups[gi].app_name, proc.test,
            process_result(proc.returncode, proc.output, proc.tmp_dir),
            [from |-> "run", group |-> gi, id |-> Len(started)])
    /\ left' = Tail(left)
    /\ proc' = None
    /\ pc' = "run"
    /\ moved' = moved \o Handoff(proc.test, proc.returncode, proc.tmp_dir)
    /\ UNCHANGED <<inputVars, toolVars, sigVars, sessVars, xgeState, gi, tasks, workers, outq, started, resolved, exited,
                   attempts>>

\* the group's generator is exhausted
RunEnd ==
    /\ Local /\ ~suspended /\ pc = "run" /\ left = <<>>
    /\ pc' = "group"
    /\ UNCHANGED <<inputVars, toolVars, sigVars, sessVars, xgeState, localVars, resolved, moved, sinkVars, attempts>>

\* a pool worker takes the next task and starts run_one_multiprocessing
WorkerTake ==
    /\ backend = "pool" /\ pool = "up" /\ tasks # <<>>
    /\ \E w \in DOMAIN workers :
          /\ workers[w] = <<>>
          /\ workers' = [workers EXCEPT ![w] =
                 <<[test |-> Head(tasks)[1], group |-> Head(tasks)[2],
                    tmp_dir |-> command_for(Head(tasks)[1], Head(tasks)[2],
                                            Len(started)).tmp_dir]>>]
    /\ resolved' = Append(resolved,
                          command_for(Head(tasks)[1], Head(tasks)[2], Len(started)))
    /\ tasks' = Tail(tasks)
    /\ started' = Append(started, Head(tasks))
    /\ UNCHANGED <<inputVars, toolVars, sigVars, sessVars, moved, xgeState, pc, gi, left, proc, outq, suspended, exited, sinkVars,
                   attempts>>

\* the worker's child exits and run_one's result goes back to the coordinator
WorkerDone ==
    /\ backend = "pool" /\ pool = "up"
    /\ \E w \in DOMAIN workers :
          /\ workers[w] # <<>>
          /\ LET task == workers[w][1]
                 t == task.test
                 rc == IF attempts[t] + 1 <= Len(plan[t]) THEN plan[t][attempts[t] + 1]
                       ELSE Last(plan[t])
             IN /\ outq' = Append(outq,
                       <<task.group, t,
                         process_result(rc, IF rc = 0 THEN "ok" ELSE "err",
                                        task.tmp_dir)>>)
                /\ attempts' = [attempts EXCEPT ![t] = @ + 1]
                /\ moved' = moved \o Handoff(t, rc, task.tmp_dir)
          /\ workers' = [workers EXCEPT ![w] = <<>>]
    /\ exited' = exited + 1
    /\ UNCHANGED <<inputVars, toolVars, sigVars, sessVars, xgeState, pc, gi, left, proc, tasks,
                   suspended, started, resolved, sinkVars>>

\* mwtest.py:158-159 the next result of the imap_unordered iterator
PoolYield ==
    /\ backend = "pool" /\ ~suspended /\ pc = "collect" /\ outq # <<>>
    /\ suspended' = TRUE
    /\ Emit(groups[Head(outq)[1]].app_name, Head(outq)[2], Head(outq)[3],
            [from |-> "pool", group |-> Head(outq)[1], id |-> Len(emitted)])
    /\ outq' = Tail(outq)
    /\ UNCHANGED <<inputVars, toolVars, sigVars, sessVars, xgeState, pc, gi, left, proc, tasks, workers, started, resolved, moved,
                   exited, attempts>>

\* report.py:17 the consumer's for loop asks the generator for the next result
Resume ==
    /\ Local /\ suspended /\ pc # "aborted"
    /\ suspended' = FALSE
    /\ UNCHANGED <<inputVars, toolVars, sigVars, sessVars, xgeState, pc, gi, left, proc, tasks,
                   workers, outq, started, resolved, moved, exited, sinkVars, attempts>>

\* mwtest.py:158 the for loop over the imap_unordered iterator ends when the
\* result of every task of the group has been yielded
ExhaustedEarly(ts, ws, oq) == ts = <<>>
Exhausted(ts, ws, oq) == ts = <<>> /\ oq = <<>> /\ \A w \in DOMAIN ws : ws[w] = <<>>

\* the iterator is exhausted: every task's result has been yielded
PoolEnd ==
    /\ backend = "pool" /\ ~suspended /\ pc = "collect"
    /\ Exhausted(tasks, workers, outq)
    /\ pc' = "group"
    /\ UNCHANGED <<inputVars, toolVars, sigVars, sessVars, xgeState, localVars, resolved, moved, sinkVars, attempts>>

\* the generator of run_all / run_all_multiprocessing is exhausted
LocalFinish ==
    /\ Local /\ ~suspended /\ pc = "group" /\ gi = Len(groups)
    /\ pc' = "done"
    /\ UNCHANGED <<inputVars, toolVars, sigVars, sessVars, xgeState, localVars, resolved, moved, sinkVars, attempts>>

\* ------------------------------------------------------------ specification
\* no server process is looked at
ServerIdle ==
    /\ srvPc = "off" /\ srvInput = <<>> /\ srvWire = <<>> /\ srvBuffer = <<>>
    /\ srvSubmitted = <<>> /\ srvAccepted = 0 /\ srvRecvs = <<>>

\* no wrap process is looked at
WrapIdle ==
    /\ cmdOut = <<>> /\ cmdErr = <<>> /\ cmdCode = 0 /\ wrapId = <<>>
    /\ wrapPc = "off" /\ wrapPrinted = <<>> /\ wrapExit = None
    /\ wrapDecoded = <<>> /\ direct = <<>>
ToolsIdle == ServerIdle /\ WrapIdle

InitXge ==
    /\ ToolsIdle
    /\ backend = "xge"
    /\ groups \in Layouts
    /\ repeat_if_failed \in 0..MaxRepeat
    /\ plan \in PlansFor(groups)
    /\ pc = "submit"
    /\ todo = SubmitOrder(groups)
    /\ queued_tests = EmptyDict
    /\ queue_id_counter = 0
    /\ repeats = EmptyDict
    /\ result = None
    /\ finalLeft = {}
    /\ running = EmptyDict
    /\ results = <<>>
    /\ jobs = {}
    /\ stdout = <<>>
    /\ readerPc = "read"
    /\ readerLine = None
    /\ child = "running" /\ sock = "open" /\ port = ServerPort /\ server = "listening"
    /\ terminated = FALSE /\ closeSaw = None
    /\ emitted = <<>>
    /\ failed = EmptyDict
    /\ emitInfo = <<>>
    /\ gi = 0 /\ left = <<>> /\ proc = None
    /\ tasks = <<>> /\ workers = EmptyDict /\ outq = <<>>
    /\ suspended = FALSE /\ sigint = "none" /\ pool = "none"
    /\ started = <<>> /\ exited = 0
    /\ issued = <<>> /\ resolved = <<>> /\ moved = <<>>
    /\ attempts = [t \in TestsOf(groups) |-> 0]
    /\ flakes = 0 /\ flaked = {} /\ seen = {} /\ sent = {}
    /\ timedOut = FALSE
    /\ polled = <<>>
    /\ breakInfo = None

NextXge ==
    \/ Submit \/ LoopHead \/ PollFirst \/ PollIsDoneRunning \/ PollIsDoneResults
    \/ PollTimeLeft \/ PollTimeout \/ PollSleep \/ Observe \/ FinalYield \/ Finish
    \/ JobEnds \/ JobFlakes \/ ReaderReadline \/ ReaderDel \/ ReaderAppend

Spec == InitXge /\ [][NextXge]_vars

InitLocal(b) ==
    /\ ToolsIdle
    /\ backend = b
    /\ groups \in LocalLayouts
    /\ repeat_if_failed = 0
    /\ plan \in PlansFor(groups)
    /\ pc = "group"
    /\ gi = 0 /\ left = <<>> /\ proc = None
    /\ tasks = <<>> /\ outq = <<>>
    /\ workers = [w \in 1..(IF b = "pool" THEN Concurrency ELSE 0) |-> <<>>]
    /\ suspended = FALSE /\ sigint = "none"
    /\ pool = (IF b = "pool" THEN "up" ELSE "none")
    /\ started = <<>> /\ exited = 0
    /\ emitted = <<>> /\ failed = EmptyDict /\ emitInfo = <<>>
    /\ attempts = [t \in TestsOf(groups) |-> 0]
    /\ todo = <<>> /\ queued_tests = EmptyDict /\ queue_id_counter = 0
    /\ repeats = EmptyDict /\ result = None /\ finalLeft = {}
    /\ running = EmptyDict /\ results = <<>> /\ jobs = {}
    /\ stdout = <<>> /\ readerPc = "read" /\ readerLine = None
    /\ child = "none" /\ sock = "none" /\ port = 0 /\ server = "none"
    /\ terminated = FALSE /\ closeSaw = None
    /\ issued = <<>> /\ resolved = <<>> /\ moved = <<>> /\ flakes = 0 /\ flaked = {} /\ seen = {} /\ sent = {}
    /\ timedOut = FALSE /\ polled = <<>>
    /\ breakInfo = None

\* mwtest.py:137 run_all
InitSeq == InitLocal("seq")
NextSeq ==
    GroupStart \/ RunStart \/ RunExit \/ RunYield \/ RunEnd \/ LocalFinish \/ Resume
SpecSeq == InitSeq /\ [][NextSeq]_vars

\* mwtest.py:152 run_all_multiprocessing
InitPool == InitLocal("pool")
NextPool ==
    \/ GroupStart \/ RunStart \/ RunExit \/ RunYield \/ RunEnd \/ LocalFinish \/ Resume
    \/ WorkerTake \/ WorkerDone \/ PoolYield \/ PoolEnd
SpecPool == InitPool /\ [][NextPool]_vars

\* mwtest.py:361-366 cmd_run picks one of the three backends
InitAll == InitXge \/ InitSeq \/ InitPool
NextAll == NextXge \/ NextSeq \/ NextPool
SpecAll == InitAll /\ [][NextAll]_vars

\* ------------------------------------------------------------ --repeat
\* the value of --repeat (mwtest.py:470) explored
Repeat == 2

\* a test that exits zero first and nonzero the next time it is run
PassThenFail == <<0, 1>>

\* mwtest.py:281 repeat_artifacts_path: one artifacts path per repetition
repeat_artifacts_path(artifacts_dir, repeat) ==
    IF repeat > 1 THEN [i \in 1..repeat |-> <<artifacts_dir, i - 1>>] ELSE <<artifacts_dir>>

\* mwtest.py:321-334 get_filtered_tests makes one TestGroup per test group of
\* the preset and per artifacts path, all with the same app_name and ids
get_filtered_tests(app_name, test_ids, repeat) ==
    LET artifact_paths == repeat_artifacts_path("out", repeat) IN
    [i \in DOMAIN artifact_paths |->
        TestGroup(app_name, test_ids, artifact_paths[i], FALSE, FALSE)]

\* mwtest.py:350-376 cmd_run with --repeat: run_all over the repeated groups,
\* report_results as its consumer
InitRepeat ==
    /\ ToolsIdle
    /\ backend = "seq"
    /\ groups \in {get_filtered_tests("app1", ids, Repeat) : ids \in {<<"A">>, <<"A", "B">>}}
    /\ repeat_if_failed = 0
    /\ plan \in [TestsOf(groups) -> Plans \cup {PassThenFail}]
    /\ pc = "group"
    /\ gi = 0 /\ left = <<>> /\ proc = None
    /\ tasks = <<>> /\ outq = <<>> /\ workers = EmptyDict
    /\ suspended = FALSE /\ sigint = "none" /\ pool = "none"
    /\ started = <<>> /\ exited = 0
    /\ emitted = <<>> /\ failed = EmptyDict /\ emitInfo = <<>>
    /\ attempts = [t \in TestsOf(groups) |-> 0]
    /\ todo = <<>> /\ queued_tests = EmptyDict /\ queue_id_counter = 0
    /\ repeats = EmptyDict /\ result = None /\ finalLeft = {}
    /\ running = EmptyDict /\ results = <<>> /\ jobs = {}
    /\ stdout = <<>> /\ readerPc = "read" /\ readerLine = None
    /\ child = "none" /\ sock = "none" /\ port = 0 /\ server = "none"
    /\ terminated = FALSE /\ closeSaw = None
    /\ issued = <<>> /\ resolved = <<>> /\ moved = <<>>
    /\ flakes = 0 /\ flaked = {} /\ seen = {} /\ sent = {}
    /\ timedOut = FALSE /\ polled = <<>> /\ breakInfo = None
SpecRepeat == InitRepeat /\ [][NextSeq]_vars

\* ------------------------------------------------------------ shared ids
\* group lists in which one test id occurs in several groups: the groups
\* get_filtered_tests makes for --repeat 2 (mwtest.py:325-334), and two
\* applications with an equal id (config.py:74 TestId is a namedtuple, equal
\* by value), one of them run on the local machine
SharedLayouts ==
    << [i \in 1..Repeat |->
          TestGroup("app1", <<"A">>, repeat_artifacts_path("out", Repeat)[i], TRUE, TRUE)],
       << TestGroup("app1", <<"A">>, "out", TRUE, TRUE),
          TestGroup("gtest", <<"A">>, None, FALSE, FALSE) >> >>

\* mwtest.py:168 run_all_xge over such a group list
InitShared ==
    /\ ToolsIdle
    /\ backend = "xge"
    /\ \E l \in DOMAIN SharedLayouts : groups = SharedLayouts[l]
    /\ repeat_if_failed \in 0..MaxRepeat
    /\ plan \in [TestsOf(groups) -> Plans \cup {PassThenFail}]
    /\ pc = "submit"
    /\ todo = SubmitOrder(groups)
    /\ queued_tests = EmptyDict
    /\ queue_id_counter = 0
    /\ repeats = EmptyDict
    /\ result = None
    /\ finalLeft = {}
    /\ running = EmptyDict
    /\ results = <<>>
    /\ jobs = {}
    /\ stdout = <<>>
    /\ readerPc = "read"
    /\ readerLine = None
    /\ child = "running" /\ sock = "open" /\ port = ServerPort /\ server = "listening"
    /\ terminated = FALSE /\ closeSaw = None
    /\ emitted = <<>>
    /\ failed = EmptyDict
    /\ emitInfo = <<>>
    /\ gi = 0 /\ left = <<>> /\ proc = None
    /\ tasks = <<>> /\ workers = EmptyDict /\ outq = <<>>
    /\ suspended = FALSE /\ sigint = "none" /\ pool = "none"
    /\ started = <<>> /\ exited = 0
    /\ issued = <<>> /\ resolved = <<>> /\ moved = <<>>
    /\ attempts = [t \in TestsOf(groups) |-> 0]
    /\ flakes = 0 /\ flaked = {} /\ seen = {} /\ sent = {}
    /\ timedOut = FALSE
    /\ polled = <<>>
    /\ breakInfo = None

SpecShared == InitShared /\ [][NextXge]_vars

\* ------------------------------------------------------------ mixed groups
\* group lists in which distributed and non-distributed groups alternate
MixedLayouts ==
    { << TestGroup("app1", <<"A", "B">>, "out", TRUE, TRUE),
         TestGroup("gtest", <<"C">>, None, FALSE, FALSE) >>,
      << TestGroup("app1", <<"A">>, "out", TRUE, TRUE),
         TestGroup("gtest", <<"B">>, None, FALSE, FALSE),
         TestGroup("app2", <<"C">>, "out", TRUE, TRUE) >>,
      << TestGroup("gtest", <<"A">>, None, FALSE, FALSE),
         TestGroup("app1", <<"B">>, "out", TRUE, TRUE),
         TestGroup("gtest", <<"C">>, None, FALSE, FALSE) >> }

\* mwtest.py:168 run_all_xge over such a group list, with tests that all
\* pass or all fail and no retries
InitMixed ==
    /\ ToolsIdle
    /\ backend = "xge"
    /\ groups \in MixedLayouts
    /\ repeat_if_failed = 0
    /\ plan \in {[t \in TestsOf(groups) |-> p] : p \in {Pass, Fail}}
    /\ pc = "submit"
    /\ todo = SubmitOrder(groups)
    /\ queued_tests = EmptyDict
    /\ queue_id_counter = 0
    /\ repeats = EmptyDict
    /\ result = None
    /\ finalLeft = {}
    /\ running = EmptyDict
    /\ results = <<>>
    /\ jobs = {}
    /\ stdout = <<>>
    /\ readerPc = "read"
    /\ readerLine = None
    /\ child = "running" /\ sock = "open" /\ port = ServerPort /\ server = "listening"
    /\ terminated = FALSE /\ closeSaw = None
    /\ emitted = <<>>
    /\ failed = EmptyDict
    /\ emitInfo = <<>>
    /\ gi = 0 /\ left = <<>> /\ proc = None
    /\ tasks = <<>> /\ workers = EmptyDict /\ outq = <<>>
    /\ suspended = FALSE /\ sigint = "none" /\ pool = "none"
    /\ started = <<>> /\ exited = 0
    /\ issued = <<>> /\ resolved = <<>> /\ moved = <<>>
    /\ attempts = [t \in TestsOf(groups) |-> 0]
    /\ flakes = 0 /\ flaked = {} /\ seen = {} /\ sent = {}
    /\ timedOut = FALSE
    /\ polled = <<>>
    /\ breakInfo = None

SpecMixed == InitMixed /\ [][NextXge]_vars

\* ------------------------------------------------------------ the session
\* xge.py:28-29 the server, started by the farm console, prints its port
ConsolePrintsPort ==
    /\ backend = "xge" /\ child = "running" /\ server = "none"
    /\ stdout' = Append(stdout, <<"port: ", ServerPort>>)
    /\ server' = "bound"
    /\ UNCHANGED <<inputVars, toolVars, sigVars, child, sock, port, terminated, closeSaw,
                   coordVars, xgeVars, readerPc, readerLine, localVars, sinkVars, histVars>>

\* xge.py:30 s.listen(1), after the port has been printed and flushed
ServerListens ==
    /\ backend = "xge" /\ child = "running" /\ server = "bound"
    /\ server' = "listening"
    /\ UNCHANGED <<inputVars, toolVars, sigVars, child, sock, port, terminated, closeSaw,
                   coordVars, xgeVars, readerVars, localVars, sinkVars, histVars>>

\* the farm console exits while XGE.__init__ is at work
ConsoleExitsEarly ==
    /\ backend = "xge" /\ pc \in {"popen", "connect"} /\ child = "running"
    /\ child' = "exited"
    /\ UNCHANGED <<inputVars, toolVars, sigVars, server, sock, port, terminated, closeSaw,
                   coordVars, xgeVars, readerVars, localVars, sinkVars, histVars>>

\* xge.py:67-70 a line that starts with 'port: ' ends the loop
HandshakeRead ==
    /\ backend = "xge" /\ pc = "popen" /\ stdout # <<>>
    /\ port' = Head(stdout)[2]
    /\ stdout' = Tail(stdout)
    /\ pc' = "connect"
    /\ UNCHANGED <<inputVars, toolVars, sigVars, server, child, sock, terminated, closeSaw, todo,
                   queued_tests, queue_id_counter, repeats, result, finalLeft, xgeVars,
                   readerPc, readerLine, localVars, sinkVars, histVars>>

\* xge.py:67 readline returns '' once the console has exited: port stays 0
HandshakeEof ==
    /\ backend = "xge" /\ pc = "popen" /\ stdout = <<>> /\ child = "exited"
    /\ pc' = "connect"
    /\ UNCHANGED <<inputVars, toolVars, sigVars, sessVars, todo, queued_tests,
                   queue_id_counter, repeats, result, finalLeft, xgeVars, readerVars,
                   localVars, sinkVars, histVars>>

\* xge.py:72-73 connect(('127.0.0.1', port)) raises socket.error when nothing
\* listens on the port (port 0, a console that is gone, a server that has
\* bound its socket but not yet called listen), and the exception leaves XGE.__init__, XGEQueue.__init__
\* (mwtest.py:204) and run_all_xge (mwtest.py:171)
Connect ==
    /\ backend = "xge" /\ pc = "connect"
    /\ IF port # 0 /\ child = "running" /\ server = "listening"
       THEN sock' = "open" /\ pc' = "thread"
       ELSE sock' = sock /\ pc' = "error"
    /\ UNCHANGED <<inputVars, toolVars, sigVars, server, child, port, terminated, closeSaw, todo,
                   queued_tests, queue_id_counter, repeats, result, finalLeft, xgeVars,
                   readerVars, localVars, sinkVars, histVars>>

\* xge.py:73-79 the reader thread is started, and mwtest.py:205-206
ThreadStart ==
    /\ backend = "xge" /\ pc = "thread"
    /\ readerPc' = "read"
    /\ pc' = "submit"
    /\ UNCHANGED <<inputVars, toolVars, sigVars, sessVars, todo, queued_tests,
                   queue_id_counter, repeats, result, finalLeft, xgeVars, stdout,
                   readerLine, localVars, sinkVars, histVars>>

\* positions of run_all_xge from the first enqueue to the end of the result loop
SessionPcs ==
    {"submit", "loop", "poll", "is_done", "is_done2", "time", "sleep", "correlate"}

\* the server's end of the connection is closed while the session is on
SocketBreaks ==
    /\ backend = "xge" /\ sock = "open" /\ pc \in SessionPcs
    /\ sock' = "broken"
    /\ UNCHANGED <<inputVars, toolVars, sigVars, server, child, port, terminated, closeSaw,
                   coordVars, xgeVars, readerVars, localVars, sinkVars, histVars>>

\* run_all_xge from the construction of the queue on, with a farm console
\* that may exit and a connection that may break
InitSession ==
    /\ ToolsIdle
    /\ backend = "xge"
    /\ groups \in {gs \in Layouts : ~ThreeTests(gs)}
    /\ repeat_if_failed \in 0..MaxRepeat
    /\ plan \in PlansFor(groups)
    /\ pc = "popen"
    /\ todo = SubmitOrder(groups)
    /\ queued_tests = EmptyDict /\ queue_id_counter = 0
    /\ repeats = EmptyDict /\ result = None /\ finalLeft = {}
    /\ running = EmptyDict /\ results = <<>> /\ jobs = {}
    /\ stdout = <<>> /\ readerPc = "off" /\ readerLine = None
    /\ child = "running" /\ sock = "none" /\ port = 0 /\ server = "none"
    /\ terminated = FALSE /\ closeSaw = None
    /\ emitted = <<>> /\ failed = EmptyDict /\ emitInfo = <<>>
    /\ gi = 0 /\ left = <<>> /\ proc = None
    /\ tasks = <<>> /\ workers = EmptyDict /\ outq = <<>>
    /\ suspended = FALSE /\ sigint = "none" /\ pool = "none"
    /\ started = <<>> /\ exited = 0
    /\ issued = <<>> /\ resolved = <<>> /\ moved = <<>>
    /\ attempts = [t \in TestsOf(groups) |-> 0]
    /\ flakes = 0 /\ flaked = {} /\ seen = {} /\ sent = {}
    /\ timedOut = FALSE /\ polled = <<>> /\ breakInfo = None
NextFault ==
    \/ NextXge
    \/ ConsolePrintsPort \/ ServerListens \/ ConsoleExitsEarly \/ HandshakeRead
    \/ HandshakeEof \/ Connect \/ ThreadStart \/ SocketBreaks
SpecFault == InitSession /\ [][NextFault]_vars

\* ------------------------------------------------------------ shutdown
\* mwtest.py:208-209 XGEQueue.__del__ runs when the exhausted generator gives
\* up its queue; xge.py:112-113 shutdown and close of the socket
CloseSocket ==
    /\ backend = "xge" /\ pc = "done" /\ sock = "open"
    /\ sock' = "closed"
    /\ pc' = "close_is_done"
    /\ UNCHANGED <<inputVars, toolVars, sigVars, server, child, port, terminated, closeSaw, todo,
                   queued_tests, queue_id_counter, repeats, result, finalLeft, xgeVars,
                   readerVars, localVars, sinkVars, histVars>>

\* xge.py:114/109 is_done reads running; a non-empty map short-circuits
CloseIsDoneRunning ==
    /\ backend = "xge" /\ pc = "close_is_done"
    /\ IF RunningEmpty(running)
       THEN pc' = "close_is_done2" /\ closeSaw' = closeSaw
       ELSE pc' = "terminate" /\ closeSaw' = "running"
    /\ UNCHANGED <<inputVars, toolVars, sigVars, server, child, sock, port, terminated, todo,
                   queued_tests, queue_id_counter, repeats, result, finalLeft, xgeVars,
                   readerVars, localVars, sinkVars, histVars>>

\* xge.py:114/109 is_done reads results
CloseIsDoneResults ==
    /\ backend = "xge" /\ pc = "close_is_done2"
    /\ closeSaw' = (IF ResultsEmpty(results) THEN "done" ELSE "results")
    /\ pc' = "terminate"
    /\ UNCHANGED <<inputVars, toolVars, sigVars, server, child, sock, port, terminated, todo,
                   queued_tests, queue_id_counter, repeats, result, finalLeft, xgeVars,
                   readerVars, localVars, sinkVars, histVars>>

\* xge.py:114 if not self.is_done()
NotDoneNever(saw) == FALSE
NotDone(saw) == saw # "done"

\* xge.py:114-115 self.child.terminate() ends the farm console and with it
\* the jobs that are still in flight
Terminate ==
    /\ backend = "xge" /\ pc = "terminate"
    /\ IF NotDone(closeSaw)
       THEN child' = "exited" /\ terminated' = TRUE /\ jobs' = {}
       ELSE UNCHANGED <<child, terminated, jobs>>
    /\ pc' = "join"
    /\ UNCHANGED <<inputVars, toolVars, sigVars, server, sock, port, closeSaw, todo, queued_tests,
                   queue_id_counter, repeats, result, finalLeft, running, results,
                   readerVars, localVars, sinkVars, histVars>>

\* xge.py:32-39 the server's recv_lines ends when the client has closed the
\* connection, server() returns, and the farm console exits once no job is left
ConsoleExits ==
    /\ backend = "xge" /\ child = "running" /\ sock = "closed" /\ jobs = {}
    /\ child' = "exited"
    /\ UNCHANGED <<inputVars, toolVars, sigVars, server, sock, port, terminated, closeSaw,
                   coordVars, xgeVars, readerVars, localVars, sinkVars, histVars>>

\* xge.py:43 readline returns '' at the end of the console's stdout
ReaderEof ==
    /\ backend = "xge" /\ readerPc = "read" /\ stdout = <<>> /\ child = "exited"
    /\ readerPc' = "ended"
    /\ UNCHANGED <<inputVars, toolVars, sigVars, sessVars, coordVars, xgeVars, stdout,
                   readerLine, localVars, sinkVars, histVars>>

\* xge.py:116 self.thread.join() returns when the thread is no longer alive
Join ==
    /\ backend = "xge" /\ pc = "join" /\ readerPc \in {"ended", "crashed"}
    /\ pc' = "closed"
    /\ UNCHANGED <<inputVars, toolVars, sigVars, sessVars, todo, queued_tests,
                   queue_id_counter, repeats, result, finalLeft, xgeVars, readerVars,
                   localVars, sinkVars, histVars>>

Close == CloseSocket \/ CloseIsDoneRunning \/ CloseIsDoneResults \/ Terminate \/ Join
CoordinatorRuns ==
    \/ Submit \/ LoopHead \/ PollFirst \/ PollIsDoneRunning \/ PollIsDoneResults
    \/ PollTimeLeft \/ PollTimeout \/ PollSleep \/ Observe \/ FinalYield \/ Finish
    \/ Close
ReaderRuns == ReaderReadline \/ ReaderDel \/ ReaderAppend \/ ReaderEof

\* every step of the coordinator changes coordAt, every step of the reader
\* changes readerAt
coordAt == <<pc, todo, finalLeft>>
readerAt == <<stdout, readerPc>>

\* a distributed run with its shutdown. Both threads keep running, the
\* clock of a poll reaches its timeout, and the console exits when it can.
NextClose ==
    \/ NextXge
    \/ CloseSocket \/ CloseIsDoneRunning \/ CloseIsDoneResults \/ Terminate \/ Join
    \/ ConsoleExits \/ ReaderEof
SpecClose ==
    /\ InitXge /\ [][NextClose]_vars
    /\ WF_coordAt(CoordinatorRuns) /\ SF_coordAt(PollTimeout)
    /\ WF_readerAt(ReaderRuns) /\ WF_child(ConsoleExits)

\* the whole life of the queue client: construction, the run, shutdown
NextLife ==
    \/ ConsolePrintsPort \/ ServerListens \/ HandshakeRead \/ Connect \/ ThreadStart
    \/ NextXge
    \/ CloseSocket \/ CloseIsDoneRunning \/ CloseIsDoneResults \/ Terminate \/ Join
    \/ ConsoleExits \/ ReaderEof
SpecLife == InitSession /\ [][NextLife]_vars

\* ------------------------------------------------------------ termination
\* the farm tool fails a job with its transient fault again, however often
\* it has done so before
JobFlakesAgain ==
    /\ backend = "xge" /\ flakes = MaxFlakes
    /\ \E msg \in jobs :
          /\ jobs' = jobs \ {msg}
          /\ stdout' = Append(stdout, <<msg.wrap, 1, FlakeOutput>>)
          /\ flaked' = flaked \cup {msg.wrap}
    /\ UNCHANGED <<inputVars, toolVars, sigVars, sessVars, coordVars, running, results,
                   readerPc, readerLine, localVars, sinkVars, issued, resolved, moved,
                   attempts, flakes, seen, sent, timedOut, polled, breakInfo>>

\* the steps of run_all_xge and of the poll it calls
GeneratorRuns ==
    \/ Submit \/ LoopHead \/ PollFirst \/ PollIsDoneRunning \/ PollIsDoneResults
    \/ PollTimeLeft \/ PollTimeout \/ PollSleep \/ Observe \/ FinalYield \/ Finish

\* a distributed run on a farm whose jobs may never end and may hit the
\* transient fault without bound. The coordinator keeps running and the
\* clock of a poll that keeps waiting reaches the timeout; nothing is
\* assumed of the farm or of the reader.
NextTerm == NextXge \/ JobFlakesAgain
SpecTerm ==
    /\ InitXge /\ [][NextTerm]_vars
    /\ WF_coordAt(GeneratorRuns) /\ SF_coordAt(PollTimeout)

\* ------------------------------------------------------------ interrupt
\* mwtest.py:147-149 init_worker: what a pool worker does with SIGINT
init_worker == "SIG_IGN"
\* the workers after a SIGINT to the process group
AfterSigint(ws) == IF init_worker = "SIG_IGN" THEN ws ELSE [w \in DOMAIN ws |-> <<>>]

\* the operator's interrupt arrives while the coordinator is inside the
\* generator (waiting for a pool result or running a non-parallel group):
\* KeyboardInterrupt is raised inside the try of mwtest.py:155, and
\* mwtest.py:163-165 terminate the pool and raise again
InterruptInGenerator ==
    /\ backend = "pool" /\ sigint = "none" /\ ~suspended /\ pc \notin {"done", "aborted"}
    /\ sigint' = pc
    /\ pool' = "terminated"
    /\ workers' = [w \in DOMAIN workers |-> <<>>]
    /\ pc' = "aborted"
    /\ UNCHANGED <<inputVars, toolVars, sessVars, xgeState, gi, left, proc, tasks, outq, suspended,
                   started, resolved, moved, exited, sinkVars, attempts>>

\* the interrupt arrives while the generator is suspended at a yield and
\* report_results handles a result (report.py:18-31): KeyboardInterrupt is
\* raised in the consumer and leaves through cmd_run to mwtest.py:516; the
\* generator is never resumed, so its except clause does not run
InterruptAtYield ==
    /\ backend = "pool" /\ sigint = "none" /\ suspended /\ pc \notin {"done", "aborted"}
    /\ sigint' = "yield"
    /\ workers' = AfterSigint(workers)
    /\ pc' = "aborted"
    /\ UNCHANGED <<inputVars, toolVars, sessVars, xgeState, gi, left, proc, tasks, outq, suspended,
                   pool, started, resolved, moved, exited, sinkVars, attempts>>

\* mwtest.py:152 run_all_multiprocessing under an operator who may interrupt
NextPoolInt == NextPool \/ InterruptInGenerator \/ InterruptAtYield
SpecPoolInt == InitPool /\ [][NextPoolInt]_vars

\* ------------------------------------------------------------ server mode
\* most lines the client writes in a session
MaxLines == 2
\* xge.py:12 the most bytes one conn.recv(1024) returns, scaled down
RecvSize == 4

\* every variable of a run of mwtest.py
runVars == <<inputVars, coordVars, xgeVars, readerVars, sessVars, localVars, sigVars,
             sinkVars, histVars>>
\* no run of mwtest.py is looked at
RunIdle ==
    /\ backend = None /\ groups = <<>> /\ repeat_if_failed = 0 /\ plan = EmptyDict
    /\ pc = "off" /\ todo = <<>> /\ queued_tests = EmptyDict /\ queue_id_counter = 0
    /\ repeats = EmptyDict /\ result = None /\ finalLeft = {}
    /\ running = EmptyDict /\ results = <<>> /\ jobs = {}
    /\ stdout = <<>> /\ readerPc = "off" /\ readerLine = None
    /\ child = "none" /\ sock = "none" /\ port = 0 /\ server = "none"
    /\ terminated = FALSE /\ closeSaw = None
    /\ gi = 0 /\ left = <<>> /\ proc = None
    /\ tasks = <<>> /\ workers = EmptyDict /\ outq = <<>>
    /\ suspended = FALSE /\ sigint = "none" /\ pool = "none"
    /\ started = <<>> /\ exited = 0
    /\ emitted = <<>> /\ failed = EmptyDict /\ emitInfo = <<>>
    /\ issued = <<>> /\ resolved = <<>> /\ moved = <<>> /\ attempts = EmptyDict
    /\ flakes = 0 /\ flaked = {} /\ seen = {} /\ sent = {}
    /\ timedOut = FALSE /\ polled = <<>> /\ breakInfo = None

\* a line of the client, xge.py:82-83: one byte for the mode ("L" for
\* 'local', "R" for 'remote', "X" for any other value) and one for the rest
\* of the JSON list (caption, cwd and command of one test)
ModeBytes == {"L", "R", "X"}
RestBytes == {"a", "b"}
ServerLines == ModeBytes \X RestBytes

RECURSIVE JoinLines(_)
\* the bytes of the lines, each with its '\n' (xge.py:85, 91)
JoinLines(ls) == IF ls = <<>> THEN <<>> ELSE Head(ls) \o <<"\n">> \o JoinLines(Tail(ls))

\* what a client may have written when it closes: whole lines, and possibly
\* the start of a line whose newline was never written
ServerInputs ==
    { JoinLines(ls) \o tail :
        ls \in UNION { [1..n -> ServerLines] : n \in 0..MaxLines },
        tail \in {<<>>, <<"L">>} }

\* xge.py:33 json.loads(line) and the unpacking into four names raise
\* ValueError unless the line is a whole message
ValueError(line) == ~(Len(line) = 2 /\ line[1] \in ModeBytes /\ line[2] \in RestBytes)
json_loads(line) ==
    [mode |-> CASE line[1] = "L" -> "local"
                [] line[1] = "R" -> "remote"
                [] OTHER -> "other",
     caption |-> line[2], cwd |-> <<"cwd", line[2]>>, wrap |-> line[2]]

\* xge.py:14 '\n' in buffer
HasNewline(buffer) == \E i \in DOMAIN buffer : buffer[i] = "\n"
\* xge.py:15 buffer.split('\n', 1)
SplitOnce(buffer) ==
    LET i == CHOOSE k \in DOMAIN buffer :
                 buffer[k] = "\n" /\ \A j \in 1..(k - 1) : buffer[j] # "\n"
    IN  <<SubSeq(buffer, 1, i - 1), SubSeq(buffer, i + 1, Len(buffer))>>
\* xge.py:20 buffer += more
AccumulateDropped(buffer, more) == more
Accumulate(buffer, more) == buffer \o more

\* the chunks one conn.recv(1024) can return: a non-empty start of the bytes
\* on the way, or '' when the client has closed and nothing is left
RecvChunks(wire) ==
    IF wire = <<>> THEN {<<>>}
    ELSE { SubSeq(wire, 1, k) : k \in 1..(IF Len(wire) < RecvSize THEN Len(wire)
                                           ELSE RecvSize) }

\* xge.py:26-31 bind, print the port, listen, accept: the one accept
ServerAccept ==
    /\ srvPc = "listen"
    /\ srvAccepted' = srvAccepted + 1
    /\ srvPc' = "recv"
    /\ UNCHANGED <<runVars, wrapVars, srvInput, srvWire, srvBuffer, srvSubmitted, srvRecvs>>

\* xge.py:12 buffer = conn.recv(1024)
ServerRecvFirst ==
    /\ srvPc = "recv"
    /\ \E chunk \in RecvChunks(srvWire) :
          /\ srvBuffer' = chunk
          /\ srvWire' = SubSeq(srvWire, Len(chunk) + 1, Len(srvWire))
          /\ srvRecvs' = Append(srvRecvs, Len(chunk))
    /\ srvPc' = "scan"
    /\ UNCHANGED <<runVars, wrapVars, srvInput, srvSubmitted, srvAccepted>>

\* xge.py:14-16 a line is split off and yielded, and xge.py:33-39 the loop
\* body starts its xgSubmit
ServerLine ==
    /\ srvPc = "scan" /\ HasNewline(srvBuffer)
    /\ LET line == SplitOnce(srvBuffer)[1] IN
       IF ValueError(line)
       THEN srvPc' = "crashed" /\ UNCHANGED srvSubmitted
       ELSE /\ srvSubmitted' = Append(srvSubmitted, xgSubmit(json_loads(line)))
            /\ UNCHANGED srvPc
    /\ srvBuffer' = SplitOnce(srvBuffer)[2]
    /\ UNCHANGED <<runVars, wrapVars, srvInput, srvWire, srvAccepted, srvRecvs>>

\* xge.py:18-22 more = conn.recv(1024); '' ends the generator and the server
ServerRecvMore ==
    /\ srvPc = "scan" /\ ~HasNewline(srvBuffer)
    /\ \E more \in RecvChunks(srvWire) :
          /\ srvWire' = SubSeq(srvWire, Len(more) + 1, Len(srvWire))
          /\ srvRecvs' = Append(srvRecvs, Len(more))
          /\ IF more # <<>>
             THEN srvBuffer' = Accumulate(srvBuffer, more) /\ UNCHANGED srvPc
             ELSE srvPc' = "done" /\ UNCHANGED srvBuffer
    /\ UNCHANGED <<runVars, wrapVars, srvInput, srvSubmitted, srvAccepted>>

\* xge.py:25 server(), fed with what one client writes
InitServer ==
    /\ RunIdle /\ WrapIdle
    /\ srvPc = "listen"
    /\ srvInput \in ServerInputs
    /\ srvWire = srvInput
    /\ srvBuffer = <<>> /\ srvSubmitted = <<>> /\ srvAccepted = 0 /\ srvRecvs = <<>>
NextServer == ServerAccept \/ ServerRecvFirst \/ ServerLine \/ ServerRecvMore
SpecServer == InitServer /\ [][NextServer]_vars

\* ------------------------------------------------------------ wrap mode
\* most bytes a command writes to one of its streams
MaxText == 2

\* the bytes of a command's output: a letter, the two line-end bytes and a
\* byte of the range 0x80-0xFF
HighByte == "0x80"
TextBytes == {"a", "\n", "\r", HighByte}
Texts == UNION { [1..n -> TextBytes] : n \in 0..MaxText }
\* exit codes of a command
ExitCodes == {0, 1, 3}

RECURSIVE DropHighBytes(_)
DropHighBytes(text) ==
    IF text # <<>> /\ Head(text) = HighByte THEN DropHighBytes(Tail(text)) ELSE text
RECURSIVE strip_invalid_chars(_)
\* adaptors.py:11 re.sub('[\x80-\xFF]+', '?', text)
strip_invalid_chars(text) ==
    IF text = <<>> THEN <<>>
    ELSE IF Head(text) = HighByte
         THEN <<"?">> \o strip_invalid_chars(DropHighBytes(text))
         ELSE <<Head(text)>> \o strip_invalid_chars(Tail(text))

RECURSIVE ReplaceCrLf(_)
\* text.replace('\r\n', '\n')
ReplaceCrLf(text) ==
    IF text = <<>> THEN <<>>
    ELSE IF Len(text) >= 2 /\ text[1] = "\r" /\ text[2] = "\n"
         THEN <<"\n">> \o ReplaceCrLf(SubSeq(text, 3, Len(text)))
         ELSE <<Head(text)>> \o ReplaceCrLf(Tail(text))

Whitespace == {"\n", "\r", " ", "\t"}
RECURSIVE lstrip(_)
lstrip(text) ==
    IF text # <<>> /\ Head(text) \in Whitespace THEN lstrip(Tail(text)) ELSE text
RECURSIVE rstrip(_)
rstrip(text) ==
    IF text # <<>> /\ Last(text) \in Whitespace
    THEN rstrip(SubSeq(text, 1, Len(text) - 1)) ELSE text
\* text.strip()
strip(text) == rstrip(lstrip(text))

\* adaptors.py:24-27 run_exe: what it returns for a child that wrote out and
\* err and exited with returncode
run_exe(out, err, returncode) ==
    <<returncode, strip(ReplaceCrLf(strip_invalid_chars(out))) \o err>>

\* xge.py:130 wrap: the output it reports
WrapOutput(out, err) == ReplaceCrLf(strip_invalid_chars(out \o err))

RECURSIVE JsonEscape(_)
\* json.dumps of a string of ASCII bytes, without the quotes
JsonEscape(text) ==
    IF text = <<>> THEN <<>>
    ELSE (CASE Head(text) = "\n" -> <<"\\", "n">>
            [] Head(text) = "\r" -> <<"\\", "r">>
            [] OTHER -> <<Head(text)>>) \o JsonEscape(Tail(text))
RECURSIVE JsonUnescape(_)
\* json.loads of the inside of a JSON string
JsonUnescape(text) ==
    IF text = <<>> THEN <<>>
    ELSE IF Head(text) = "\\"
         THEN <<(IF text[2] = "n" THEN "\n" ELSE "\r")>>
                  \o JsonUnescape(SubSeq(text, 3, Len(text)))
         ELSE <<Head(text)>> \o JsonUnescape(Tail(text))

\* xge.py:131 'wrapped ' + json.dumps([sys.argv[2], child.returncode, output])
WrappedLine(id, returncode, output) ==
    <<"wrapped ", id, returncode>> \o JsonEscape(output)
\* xge.py:44 line.startswith('wrapped ')
IsWrapped(line) == line # <<>> /\ Head(line) = "wrapped "
\* xge.py:45 id, retcode, output = json.loads(line[8:])
json_loads_result(line) ==
    <<line[2], line[3], JsonUnescape(SubSeq(line, 4, Len(line)))>>

\* xge.py:128-131 wrap runs the command, collects its streams and prints
WrapPrint ==
    /\ wrapPc = "start"
    /\ wrapPrinted' = WrappedLine(wrapId, cmdCode, WrapOutput(cmdOut, cmdErr))
    /\ wrapPc' = "printed"
    /\ UNCHANGED <<runVars, serverVars, cmdOut, cmdErr, cmdCode, wrapId, wrapExit,
                   wrapDecoded, direct>>

\* xge.py:132 exit(child.returncode)
WrapExit ==
    /\ wrapPc = "printed"
    /\ wrapExit' = cmdCode
    /\ wrapPc' = "exited"
    /\ UNCHANGED <<runVars, serverVars, cmdOut, cmdErr, cmdCode, wrapId, wrapPrinted,
                   wrapDecoded, direct>>

\* xge.py:44-45 the reader decodes the line
ReaderDecode ==
    /\ wrapPc = "exited" /\ IsWrapped(wrapPrinted)
    /\ wrapDecoded' = json_loads_result(wrapPrinted)
    /\ wrapPc' = "decoded"
    /\ UNCHANGED <<runVars, serverVars, cmdOut, cmdErr, cmdCode, wrapId, wrapPrinted,
                   wrapExit, direct>>

\* mwtest.py:101 run_one: adaptors.run_exe on the same command
RunExeDirect ==
    /\ wrapPc # "off" /\ direct = <<>>
    /\ direct' = run_exe(cmdOut, cmdErr, cmdCode)
    /\ UNCHANGED <<runVars, serverVars, cmdOut, cmdErr, cmdCode, wrapId, wrapPc,
                   wrapPrinted, wrapExit, wrapDecoded>>

\* one command, run through wrap and run through run_exe
InitWrap ==
    /\ RunIdle /\ ServerIdle
    /\ cmdOut \in Texts /\ cmdErr \in Texts /\ cmdCode \in ExitCodes
    /\ wrapId \in {str(0), str(12)}
    /\ wrapPc = "start"
    /\ wrapPrinted = <<>> /\ wrapExit = None /\ wrapDecoded = <<>> /\ direct = <<>>
NextWrap == WrapPrint \/ WrapExit \/ ReaderDecode \/ RunExeDirect
SpecWrap == InitWrap /\ [][NextWrap]_vars

\* ------------------------------------------------------------ properties
Indices(seq, P(_)) == {i \in DOMAIN seq : P(seq[i])}
Count(seq, P(_)) == Cardinality(Indices(seq, P))

\* the number of enqueues of test id t
IssuedOf(t) == Count(issued, LAMBDA e : e.test = t)
\* the number of emitted results of test id t with the given success
EmittedOf(t, success) == Count(emitted, LAMBDA e : e[2] = t /\ e[3].success = success)
\* the key of failed for test id t, which these layouts put in one group
KeyOf(t) == CHOOSE k \in {<<groups[g].app_name, t>> : g \in DOMAIN groups} :
                \E g \in DOMAIN groups :
                    k[1] = groups[g].app_name /\ t \in SeqToSet(groups[g].test_ids)
\* the run is over, no job hit the transient fault and no poll timed out
CleanRun == pc = "done" /\ flaked = {} /\ ~timedOut

\* C1: in a distributed run with no transient fault and no timeout in which
\* every job's result line reached the reader, every issued queue id is
\* returned by poll exactly once.
C1_EveryResultPolledOnce ==
    (CleanRun /\ \A i \in DOMAIN issued : str(issued[i].id) \in seen)
        => \A i \in DOMAIN issued :
              Count(polled, LAMBDA id : id = str(issued[i].id)) = 1

\* C2: with repeat_if_failed = k, a test whose every execution exits nonzero
\* is enqueued k+1 times, k+1 failed results are emitted for it and its record
\* is (k+1, 0); in the three-test scenario with k = 1 the stream holds one
\* success for A, two failures for B and one success for C.
C2_AlwaysFailingRunsKPlusOne ==
    CleanRun =>
        /\ \A t \in TestsOf(groups) :
              plan[t] = Fail =>
                 /\ IssuedOf(t) = repeat_if_failed + 1
                 /\ EmittedOf(t, FALSE) = repeat_if_failed + 1
                 /\ EmittedOf(t, TRUE) = 0
                 /\ DictGet(failed, KeyOf(t), None) = <<repeat_if_failed + 1, 0>>
        /\ (ThreeTests(groups) /\ repeat_if_failed = 1) =>
              /\ EmittedOf("A", TRUE) = 1 /\ EmittedOf("A", FALSE) = 0
              /\ EmittedOf("B", FALSE) = 2 /\ EmittedOf("B", TRUE) = 0
              /\ EmittedOf("C", TRUE) = 1 /\ EmittedOf("C", FALSE) = 0

\* C3: with repeat_if_failed >= 1, a test that exits nonzero first and zero
\* second is enqueued exactly twice, ends with the record (1, 1), is listed
\* as instable and not as failed.
C3_FailThenPassIsInstable ==
    (CleanRun /\ repeat_if_failed >= 1) =>
        \A t \in TestsOf(groups) :
           plan[t] = FailThenPass =>
              /\ IssuedOf(t) = 2
              /\ DictGet(failed, KeyOf(t), None) = <<1, 1>>
              /\ KeyOf(t) \in instable_list(failed)
              /\ KeyOf(t) \notin failed_list(failed)

\* C4: with repeat_if_failed = 0, a test whose job first ends in the transient
\* fault and then exits 0 yields exactly one emitted result, a success, and
\* no failure record; the resubmission issues no queue id and counts no retry.
C4_FlakeThenSuccess ==
    (pc = "done" /\ ~timedOut /\ repeat_if_failed = 0) =>
        \A i \in DOMAIN issued :
           (str(issued[i].id) \in flaked /\ plan[issued[i].test] = Pass
            /\ str(issued[i].id) \in seen) =>
              /\ EmittedOf(issued[i].test, TRUE) = 1
              /\ EmittedOf(issued[i].test, FALSE) = 0
              /\ KeyOf(issued[i].test) \notin DOMAIN failed
              /\ IssuedOf(issued[i].test) = 1
              /\ repeats = EmptyDict

\* C5: when the result loop ends with M entries left in queued_tests, exactly
\* M further results are emitted, one per entry, each with success FALSE and
\* output "Failed to start!", and none of them is enqueued again.
C5_PendingReportedFailedToStart ==
    pc = "done" =>
        LET M == breakInfo.pending
            tail == {i \in DOMAIN emitted : i > breakInfo.emitted}
        IN  /\ M = DOMAIN queued_tests
            /\ Cardinality(tail) = Cardinality(M)
            /\ \A q \in M :
                  \E i \in tail :
                     /\ emitInfo[i].id = q
                     /\ emitted[i] = <<groups[queued_tests[q][2]].app_name,
                                       queued_tests[q][1],
                                       [success |-> FALSE, output |-> "Failed to start!"]>>
                     /\ \A j \in tail : emitInfo[j].id = q => j = i
            /\ Len(issued) = breakInfo.issued
            /\ queue_id_counter = breakInfo.issued

\* the loop ended with two invocations pending and both were reported
C5_Witness ==
    /\ pc = "done" /\ Cardinality(breakInfo.pending) = 2
    /\ Len(emitted) = breakInfo.emitted + 2

PollPcs == {"poll", "is_done", "is_done2", "time", "sleep"}

\* C6: poll returns a buffered result at once when there is one, returns a
\* result at the first get_result of its wait loop that finds one buffered,
\* and returns None only on the timeout or when running is empty and nothing
\* is buffered, whatever the reader does between its two steps.
C6_PollContract ==
    [][ /\ (pc = "poll" /\ pc' # "poll" /\ results # <<>>) =>
              (pc' = "correlate" /\ result' = Last(results)
               /\ results' = SubSeq(results, 1, Len(results) - 1))
        /\ (pc = "sleep" /\ pc' # "sleep" /\ results # <<>>) =>
              (pc' = "correlate" /\ result' = Last(results))
        /\ (pc \in PollPcs /\ pc' = "correlate") => results # <<>>
        /\ (pc \in PollPcs /\ pc' = "final") =>
              \/ pc = "time" /\ breakInfo'.cause = "timeout"
              \/ running = EmptyDict /\ results = <<>>
      ]_vars

\* poll has returned None between the reader's del and its append
C6_Witness ==
    /\ pc = "final" /\ breakInfo.cause = "done" /\ readerPc = "append"
    /\ polled # <<>>

\* the test ids emitted for group g, in the order of the stream
EmittedOfGroup(g) ==
    LET idx == SelectSeq([i \in DOMAIN emitted |-> i], LAMBDA i : emitInfo[i].group = g)
    IN  [j \in DOMAIN idx |-> emitted[idx[j]][2]]
NoDuplicates(seq) == \A i, j \in DOMAIN seq : seq[i] = seq[j] => i = j
GroupOver(g) == g < gi \/ pc = "done" \/ (g = gi /\ pc = "group")

\* C7: in the Pool backend a group with parallel = FALSE emits its results in
\* test-id list order through run(), and a group with parallel = TRUE emits
\* each of its test ids exactly once, in any order.
C7_PoolGroupOrder ==
    \A g \in DOMAIN groups :
       LET es == EmittedOfGroup(g)
           ids == groups[g].test_ids
       IN  /\ \A i \in DOMAIN emitted :
                 emitInfo[i].group = g => emitted[i][1] = groups[g].app_name
           /\ ~groups[g].parallel =>
                 /\ Len(es) <= Len(ids) /\ es = SubSeq(ids, 1, Len(es))
                 /\ \A i \in DOMAIN emitted :
                       emitInfo[i].group = g => emitInfo[i].from = "run"
           /\ groups[g].parallel =>
                 /\ NoDuplicates(es) /\ SeqToSet(es) \subseteq SeqToSet(ids)
           /\ GroupOver(g) => (Len(es) = Len(ids) /\ SeqToSet(es) = SeqToSet(ids))

\* a parallel group finished out of list order beside a non-parallel group
C7_Witness ==
    /\ backend = "pool" /\ pc = "done"
    /\ \E g \in DOMAIN groups :
          groups[g].parallel /\ EmittedOfGroup(g) # groups[g].test_ids
    /\ \E g \in DOMAIN groups :
          ~groups[g].parallel /\ EmittedOfGroup(g) = groups[g].test_ids

AllGroups(gs) == [i \in DOMAIN gs |-> i]

\* C8: the Sequential backend starts one child per test id, groups in list
\* order and test ids in list order, each only after the previous one has
\* exited and been emitted, and emits the results in the same order.
C8_SequentialOrder ==
    LET all == Flatten(groups, AllGroups(groups)) IN
    /\ Len(started) <= Len(all) /\ started = SubSeq(all, 1, Len(started))
    /\ Len(emitted) <= Len(all)
    /\ \A i \in DOMAIN emitted :
          /\ emitted[i][2] = all[i][1]
          /\ emitted[i][1] = groups[all[i][2]].app_name
          /\ emitInfo[i].group = all[i][2]
    /\ exited <= Len(started) /\ Len(started) <= exited + 1
    /\ Len(emitted) <= exited /\ Len(started) <= Len(emitted) + 1
    /\ pc = "done" => (Len(started) = Len(all) /\ Len(emitted) = Len(all))

\* a run of two groups is over
C8_Witness ==
    /\ backend = "seq" /\ pc = "done" /\ Len(groups) = 2 /\ Len(emitted) = 4
    /\ exited = 4

\* the number of retry enqueues of test id t
RetriesOf(t) == Count(issued, LAMBDA e : e.test = t /\ e.retry)

\* C9: when the result loop handles a failed result of test id t, it
\* re-enqueues the invocation and adds one to repeats[t] if and only if
\* repeats[t] was below repeat_if_failed; otherwise it only emits the
\* failure; the retry enqueues of a test id never exceed repeat_if_failed.
C9_RetryPolicy ==
    [][ /\ (pc = "correlate" /\ pc' = "loop" /\ result[2] # 0) =>
              LET q == int(result[1])
                  t == queued_tests[q][1]
                  n == DictGet(repeats, t, 0)
                  requeued == /\ Len(issued') = Len(issued) + 1
                              /\ Last(issued').test = t
                              /\ Last(issued').group = queued_tests[q][2]
                              /\ Last(issued').id \in DOMAIN queued_tests'
                              /\ queue_id_counter' = queue_id_counter + 1
              IN  /\ Len(emitted') = Len(emitted) + 1
                  /\ Last(emitted')[2] = t /\ ~Last(emitted')[3].success
                  /\ n < repeat_if_failed =>
                        (requeued /\ repeats' = DictSet(repeats, t, n + 1))
                  /\ ~(n < repeat_if_failed) =>
                        (issued' = issued /\ repeats' = repeats
                         /\ queue_id_counter' = queue_id_counter
                         /\ DOMAIN queued_tests' = DOMAIN queued_tests \ {q})
        /\ \A t \in TestsOf(groups) : RetriesOf(t)' <= repeat_if_failed
      ]_vars

\* a test used up its one retry and its second failure was emitted
C9_Witness ==
    /\ repeat_if_failed = 1
    /\ \E t \in TestsOf(groups) :
          /\ DictGet(repeats, t, 0) = 1 /\ RetriesOf(t) = 1
          /\ Count(emitted, LAMBDA e : e[2] = t /\ e[3].output = "err") = 2

\* the ids whose result the coordinator has taken out of queued_tests
Observed == {emitInfo[i].id : i \in Indices(emitInfo, LAMBDA e : e.from = "loop")}

\* C10: the queue ids issued are strictly increasing, hence unique, over
\* initial submissions and retries, and queued_tests holds exactly one entry
\* for every id issued and not yet observed, the one its enqueue stored.
C10_QueueIdsAndPending ==
    /\ \A i, j \in DOMAIN issued : i < j => issued[i].id < issued[j].id
    /\ \A i \in DOMAIN issued : issued[i].id < queue_id_counter
    /\ DOMAIN queued_tests = {issued[i].id : i \in DOMAIN issued} \ Observed
    /\ \A q \in DOMAIN queued_tests :
          \E i \in DOMAIN issued :
             /\ issued[i].id = q
             /\ queued_tests[q][1] = issued[i].test
             /\ queued_tests[q][2] = issued[i].group

\* a retry has been issued while an earlier id was observed and one is live
C10_Witness ==
    /\ \E i \in DOMAIN issued : issued[i].retry
    /\ Observed # {} /\ DOMAIN queued_tests # {}
    /\ Len(issued) >= 3

\* the enqueue that issued the id a message carries
IssuedFor(msg) == issued[CHOOSE i \in DOMAIN issued : str(issued[i].id) = msg.wrap]
\* the test group of the invocation a message belongs to
GroupOfMsg(msg) == groups[IssuedFor(msg).group]

\* C11 as stated: no invocation of a group with xge = false, retries included,
\* is ever written to the socket for the server to submit as a farm job.
C11_LocalNeverSubmitted ==
    \A s \in sent : GroupOfMsg(s.msg).xge

\* C11: every message written to the socket for an invocation of a group
\* with xge = false, retries and resubmissions included, has the mode 'local',
\* so the server submits it with /allowremote=off, and every message of a
\* group with xge = true is submitted as remotely distributable.
C11_LocalGroupsSubmittedLocally ==
    /\ \A s \in sent :
          /\ (s.msg.mode = "local") = ~GroupOfMsg(s.msg).xge
          /\ xgSubmit(s.msg).allowremote = GroupOfMsg(s.msg).xge
    /\ \A j \in jobs : \E s \in sent : j = xgSubmit(s.msg)

\* the retry of a test of a group with xge = false has been submitted
C11_Witness ==
    \E s \in sent :
       /\ IssuedFor(s.msg).retry
       /\ ~GroupOfMsg(s.msg).xge
       /\ ~xgSubmit(s.msg).allowremote

\* the reader takes a line with the transient-fault signature off stdout
ReaderTakesFlake ==
    /\ readerPc = "read" /\ stdout # <<>> /\ stdout' = Tail(stdout)
    /\ IsFlake(Head(stdout)[3])
\* the ids whose result line can still arrive at the reader or is in its hands
ArrivingIds ==
    {j.wrap : j \in jobs} \cup {stdout[i][1] : i \in DOMAIN stdout}
        \cup (IF readerPc = "del" THEN {readerLine[1]} ELSE {})

\* C13: for every id whose result line can arrive, running holds the message
\* enqueue wrote for that id; and when the reader takes a line with the
\* transient-fault signature it buffers no result, leaves running as it is
\* and writes exactly the stored message of that id to the socket again.
C13_FlakeResendsStoredMessage ==
    [][/\ \A id \in ArrivingIds :
             /\ id \in DOMAIN running
             /\ running[id].wrap = id
             /\ [msg |-> running[id], by |-> "coordinator"] \in sent
       /\ ReaderTakesFlake =>
             LET id == Head(stdout)[1] IN
             /\ results' = results
             /\ running' = running
             /\ readerPc' = "read"
             /\ sent' = sent \cup {[msg |-> running[id], by |-> "reader"]}
             /\ jobs' = jobs \cup {xgSubmit(running[id])}]_vars

\* the reader has written a message again, its id is still in running, no
\* result is buffered for it and the resubmitted job is in flight
C13_Witness ==
    \E s \in sent :
       /\ s.by = "reader"
       /\ s.msg.wrap \in DOMAIN running
       /\ \A i \in DOMAIN results : results[i][1] # s.msg.wrap
       /\ xgSubmit(s.msg) \in jobs

\* a step of client_async_reader
ReaderStep == readerPc' # readerPc \/ (stdout # <<>> /\ stdout' = Tail(stdout))

\* C20: the reader thread only appends results: no step of it writes to the
\* socket or removes an entry from a pending map (XGE.running or
\* XGEQueue.queued_tests), and no step of the coordinator's appends a result.
C20_ReaderOnlyWritesResults ==
    [][/\ ReaderStep =>
             /\ sent' = sent
             /\ DOMAIN running \subseteq DOMAIN running'
             /\ queued_tests' = queued_tests
       /\ ~ReaderStep => Len(results') <= Len(results)]_vars

\* C12 as stated: for every invocation resolved by command_for, a temp
\* directory is created exactly when the group declares an artifacts path.
C12_TmpDirCreatedIffArtifacts ==
    \A i \in DOMAIN resolved :
       (resolved[i].makedirs # {}) = (groups[resolved[i].group].artifacts_path # None)

\* C12: every invocation resolved by command_for, in the three backends and
\* for every retry, gets a temp path exactly when its group declares an
\* artifacts path, and that path is created as a directory exactly when, in
\* addition, the app's command template holds {{out_dir}}; every enqueue and
\* every child started has its own resolution, with a path of its own.
C12_TmpPathIffArtifacts ==
    /\ Len(resolved) = (IF backend = "xge" THEN Len(issued) ELSE Len(started))
    /\ \A i \in DOMAIN resolved :
          LET g == groups[resolved[i].group] IN
          /\ (resolved[i].tmp_dir # None) = (g.artifacts_path # None)
          /\ resolved[i].makedirs =
                (IF /\ g.artifacts_path # None
                    /\ "{{out_dir}}" \in SeqToSet(AppCommand(g.app_name))
                 THEN {resolved[i].tmp_dir} ELSE {})
    /\ \A i, j \in DOMAIN resolved :
          (i # j /\ resolved[i].tmp_dir # None) => resolved[i].tmp_dir # resolved[j].tmp_dir

\* a retry of a distributed run was resolved with a temp path that is a
\* directory, and one without
C12_Witness ==
    /\ backend = "xge"
    /\ \E i \in DOMAIN issued : issued[i].retry /\ resolved[i].makedirs # {}
    /\ \E i \in DOMAIN issued : resolved[i].tmp_dir = None

RECURSIVE WholeLines(_, _)
\* the newline-terminated lines of a byte stream, in order; cur is the line
\* being read
WholeLines(stream, cur) ==
    IF stream = <<>> THEN <<>>
    ELSE IF Head(stream) = "\n"
         THEN <<cur>> \o WholeLines(Tail(stream), <<>>)
         ELSE WholeLines(Tail(stream), Append(cur, Head(stream)))
\* the submission the claim asks for a line
SubmissionFor(line) ==
    [allowremote |-> line[1] # "L", caption |-> line[2], cwd |-> <<"cwd", line[2]>>,
     wrap |-> line[2]]
\* the bytes the server has been handed so far
Received == SubSeq(srvInput, 1, Len(srvInput) - Len(srvWire))

\* C17: the server accepts one connection and never a second; however recv
\* cuts the byte stream into chunks, the submissions made so far are, in
\* order, one per newline-terminated line received and taken off the buffer,
\* /allowremote=off exactly for the mode 'local'; and when the server ends
\* it has made exactly one for every newline-terminated line written.
C17_ServerRelaysEveryLine ==
    /\ srvAccepted <= 1
    /\ srvPc # "crashed"
    /\ LET lines == WholeLines(srvInput, <<>>)
           taken == SubSeq(Received, 1, Len(Received) - Len(srvBuffer))
       IN  /\ srvSubmitted = [i \in 1..Len(WholeLines(taken, <<>>)) |->
                                  SubmissionFor(lines[i])]
           /\ srvPc = "done" => Len(srvSubmitted) = Len(lines)

\* the server has ended after two lines, one 'local' and one not, that
\* reached it in chunks cutting a line in two and joining the end of one line
\* with the start of the next
C17_Witness ==
    /\ srvPc = "done" /\ srvAccepted = 1
    /\ Len(srvSubmitted) = 2
    /\ ~srvSubmitted[1].allowremote /\ srvSubmitted[2].allowremote
    /\ Len(srvRecvs) >= 3 /\ srvRecvs[1] = 1 /\ srvRecvs[2] = 4

\* C18: when a command has been run through wrap and its line decoded, and
\* also through run_exe, the decoded tuple has the id given to wrap, the
\* command's exit code and the output text run_exe returns, and wrap exited
\* with the exit code.
C18_WrapRoundTrip ==
    (wrapPc = "decoded" /\ direct # <<>>) =>
        /\ wrapDecoded[1] = wrapId
        /\ wrapDecoded[2] = cmdCode
        /\ wrapDecoded[3] = direct[2]
        /\ wrapExit = cmdCode

\* no byte of the range 0x80-0xFF
Sanitized(text) == \A i \in DOMAIN text : text[i] # HighByte

\* C19: the output of every result, that of run_exe (sequential and pool
\* backends) and that decoded from wrap's line (distributed backend), holds
\* no byte of the range 0x80-0xFF, whether the command wrote it to stdout or
\* to stderr.
C19_OutputsSanitized ==
    /\ direct # <<>> => Sanitized(direct[2])
    /\ wrapDecoded # <<>> => Sanitized(wrapDecoded[3])

\* C16: in a pool run, once the operator's interrupt has been raised,
\* wherever the coordinator was (waiting for a pool result, running a
\* non-parallel group, or suspended at a yield), the pool has been terminated
\* and no worker runs a task any more, and the interrupt has left the run
\* towards the caller.
C16_InterruptTerminatesPool ==
    sigint # "none" =>
        /\ pc = "aborted"
        /\ pool = "terminated"
        /\ \A w \in DOMAIN workers : workers[w] = <<>>

\* C15: when the farm console exits without having printed its handshake
\* line, the construction of the client fails, no reader is started and no
\* invocation is submitted; and once the connection has broken in the middle
\* of a session, run_all_xge neither goes on to report what is left as
\* 'Failed to start!' nor comes to its normal end.
C15_FatalConditionsAbort ==
    /\ (child = "exited" /\ port = 0 /\ stdout = <<>>) =>
          /\ pc \in {"popen", "connect", "error"}
          /\ sock = "none" /\ readerPc = "off"
          /\ issued = <<>> /\ sent = {} /\ jobs = {}
    /\ sock = "broken" => pc \notin {"final", "done"}


\* what close() has done so far, by the position of the coordinator
SocketClosed == pc \in {"close_is_done", "close_is_done2", "terminate", "join", "closed"}
Decided == pc \in {"join", "closed"}

EmissionsOf(q) == {i \in DOMAIN emitInfo : emitInfo[i].id = q}

\* C21: whatever the interleaving of the reader and the coordinator, also
\* when a resubmission after the transient fault and a retry re-enqueue
\* happen in one run, every queue id accounts for at most one emitted result,
\* real or synthetic, and every emitted result belongs to an issued queue id.
C21_NoInvocationCountedTwice ==
    /\ \A i \in DOMAIN issued : Cardinality(EmissionsOf(issued[i].id)) <= 1
    /\ \A i \in DOMAIN emitInfo : \E j \in DOMAIN issued : issued[j].id = emitInfo[i].id
    /\ Len(emitInfo) = Len(emitted)

\* a finished run with a resubmission by the reader and a retry by the
\* coordinator, every queue id emitted
C21_Witness ==
    /\ pc = "done" /\ flaked # {}
    /\ \E i \in DOMAIN issued : issued[i].retry
    /\ \E r \in sent : r.by = "reader"
    /\ Len(emitted) = Len(issued)
    /\ \E i \in DOMAIN emitInfo : emitInfo[i].from = "final"


\* the enqueue that issued queue id q, and the command_for call it made
EnqueueOf(q) == CHOOSE i \in DOMAIN issued : issued[i].id = q
\* two values of tmp_dir, each None or a path, are equal
SameDir(a, b) == IF a # None /\ b # None THEN a = b ELSE ~(a # None) /\ ~(b # None)
\* the queue ids issued so far
IssuedIds == {issued[i].id : i \in DOMAIN issued}

\* C22: the entry of a queue id q leaves queued_tests only in the step that
\* observes the result of q, that step emits the result under the test id,
\* the group and the temporary directory of the enqueue that issued q, and
\* an entry that has left never comes back.
C22_CorrelationRestoresContext ==
    [][ \A q \in IssuedIds :
          /\ (q \in DOMAIN queued_tests /\ q \notin DOMAIN queued_tests') =>
                LET e == issued[EnqueueOf(q)]
                    tmp_dir == resolved[EnqueueOf(q)].tmp_dir
                IN  /\ pc = "correlate" /\ int(result[1]) = q
                    /\ queued_tests[q][1] = e.test /\ queued_tests[q][2] = e.group
                    /\ SameDir(queued_tests[q][3], tmp_dir)
                    /\ Len(emitted') = Len(emitted) + 1
                    /\ Last(emitted')[1] = groups[e.group].app_name
                    /\ Last(emitted')[2] = e.test
                    /\ Last(emitted')[3].success = (result[2] = 0)
                    /\ Last(emitted')[3].artifacts =
                          (IF tmp_dir = None THEN <<>> ELSE move_artifacts(tmp_dir))
                    /\ Last(emitInfo').id = q
          /\ (pc = "correlate" /\ pc' = "loop" /\ int(result[1]) = q) =>
                (q \in DOMAIN queued_tests /\ q \notin DOMAIN queued_tests')
          /\ q \notin DOMAIN queued_tests => q \notin DOMAIN queued_tests'
      ]_vars

\* the result of a retry that has a temporary directory has been observed
C22_Witness ==
    \E i \in DOMAIN emitInfo :
       /\ emitInfo[i].from = "loop"
       /\ issued[EnqueueOf(emitInfo[i].id)].retry
       /\ emitted[i][3].artifacts # <<>>
       /\ emitInfo[i].id \notin DOMAIN queued_tests


\* C23: the client calls connect only when the server is listening on the
\* port it announced, and every enqueue happens on an open connection,
\* after the connect and before the close.
C23_ConnectWhenListeningEnqueueWhenConnected ==
    [][ /\ (pc = "connect" /\ pc' # "connect") => server = "listening"
        /\ Len(issued') > Len(issued) => sock = "open"
      ]_vars


\* C24: the step that handles a result in the result loop restores the
\* context first: it calls move_artifacts once if and only if the enqueue
\* of the result's queue id made a temporary directory, with that directory,
\* the test id and success = (returncode = 0), before the retry is enqueued
\* and before the result is emitted; it emits the list move_artifacts
\* returned as the result's artifacts; nothing else in the run hands off.
C24_HandoffThenRetryThenEmit ==
    [][ /\ (pc = "correlate" /\ pc' = "loop") =>
              LET q == int(result[1])
                  e == issued[EnqueueOf(q)]
                  tmp_dir == resolved[EnqueueOf(q)].tmp_dir
                  call == [test_id |-> e.test, success |-> result[2] = 0,
                           tmp_path |-> tmp_dir,
                           issued |-> Len(issued), emitted |-> Len(emitted)]
              IN  /\ moved' = (IF tmp_dir # None THEN Append(moved, call) ELSE moved)
                  /\ Len(emitted') = Len(emitted) + 1
                  /\ Last(emitted')[2] = e.test
                  /\ Last(emitted')[3].success = (result[2] = 0)
                  /\ Last(emitted')[3].artifacts =
                        (IF tmp_dir # None THEN move_artifacts(tmp_dir) ELSE <<>>)
                  /\ Len(issued') > Len(issued) =>
                        /\ ~Last(emitted')[3].success
                        /\ Last(issued').retry /\ Last(issued').test = e.test
        /\ moved' # moved => (pc = "correlate" /\ pc' = "loop")
      ]_vars

\* a failed result with a temporary directory was handed off, its test was
\* enqueued again right after, and the result has been emitted
C24_Witness ==
    \E i \in DOMAIN moved :
       /\ ~moved[i].success
       /\ Len(issued) > moved[i].issued /\ issued[moved[i].issued + 1].retry
       /\ Len(emitted) > moved[i].emitted
       /\ emitted[moved[i].emitted + 1][3].artifacts = move_artifacts(moved[i].tmp_path)


\* the enqueues that made a temporary directory
WithTmpDir == {i \in DOMAIN resolved : resolved[i].tmp_dir # None}

\* C25: no two enqueues of a distributed run, a retry and the earlier
\* attempt of its test included, get the same temporary directory, so no two
\* pending invocations share one; and a directory is handed to
\* move_artifacts at most once, only after the result of its invocation has
\* been returned by poll and its entry has left queued_tests.
C25_TmpDirsExclusivelyOwned ==
    /\ \A i, j \in WithTmpDir : i # j => resolved[i].tmp_dir # resolved[j].tmp_dir
    /\ \A q \in DOMAIN queued_tests :
          SameDir(queued_tests[q][3], resolved[EnqueueOf(q)].tmp_dir)
    /\ \A p, q \in DOMAIN queued_tests :
          (p # q /\ queued_tests[p][3] # None /\ queued_tests[q][3] # None)
             => queued_tests[p][3] # queued_tests[q][3]
    /\ \A k \in DOMAIN moved :
          /\ \E i \in WithTmpDir :
                /\ resolved[i].tmp_dir = moved[k].tmp_path
                /\ str(issued[i].id) \in SeqToSet(polled)
                /\ issued[i].id \notin DOMAIN queued_tests
          /\ \A l \in DOMAIN moved : moved[l].tmp_path = moved[k].tmp_path => l = k

\* two invocations with temporary directories are pending, one of them a
\* retry whose earlier attempt has been handed off
C25_Witness ==
    /\ \E p, q \in DOMAIN queued_tests :
          /\ p # q /\ queued_tests[p][3] # None /\ queued_tests[q][3] # None
          /\ issued[EnqueueOf(q)].retry
    /\ moved # <<>>


\* the keys (app name, test id) of the results emitted so far
EmittedKeys == {<<emitted[i][1], emitted[i][2]>> : i \in DOMAIN emitted}
\* the positions of the results of key k with the given success
ResultsOf(k, success) ==
    {i \in DOMAIN emitted :
        emitted[i][1] = k[1] /\ emitted[i][2] = k[2] /\ emitted[i][3].success = success}

\* C26: at the end of a run a test whose results hold at least one failure
\* and at least one success is in the instable list and not in the failed
\* list, in whatever order the two came.
C26_MixedResultsAreInstable ==
    pc = "done" =>
        \A k \in EmittedKeys :
           (ResultsOf(k, FALSE) # {} /\ ResultsOf(k, TRUE) # {}) =>
              (k \in instable_list(failed) /\ k \notin failed_list(failed))


\* the fields of an ExecutionResult
ResultFields == {"success", "output", "artifacts"}

\* C27: every result emitted by the sequential, the pool or the distributed
\* backend, a synthetic 'Failed to start!' result included, carries the three
\* fields success, output and artifacts.
C27_EveryResultComplete ==
    \A i \in DOMAIN emitted : DOMAIN emitted[i][3] = ResultFields


\* C28: when the result loop ends without a poll having timed out, no
\* invocation that is left in queued_tests, to be reported as 'Failed to
\* start!' by the final loop, is one whose result line (without the
\* transient-fault signature) the reader has already taken.
C28_ReadResultNeverFailedToStart ==
    [][ (pc # "final" /\ pc' = "final" /\ ~timedOut')
            => \A q \in DOMAIN queued_tests' : str(q) \notin seen
      ]_vars


\* the results emitted by the result loop, not by the final loop
FromLoop == {i \in DOMAIN emitInfo : emitInfo[i].from = "loop"}

MostResults == Len(SubmitOrder(groups)) * (repeat_if_failed + 1)

\* C30: the distributed run always comes to its end after boundedly many
\* results, also when jobs never print a result line or hit the transient
\* fault every time they run: a poll that keeps waiting times out and what
\* is pending is reported by the final loop. When every queue id issued has
\* been observed the loop ends without waiting: poll never gets to look at
\* the clock, and no timeout is recorded.
C30_RunTerminates ==
    /\ <>(pc = "done")
    /\ [](Len(emitted) <= MostResults)
    /\ []((todo = <<>> /\ DOMAIN queued_tests = {}) => pc \notin {"time", "sleep"})
    /\ []((pc = "done" /\ DOMAIN queued_tests = {}) => (~timedOut /\ breakInfo.cause = "done"))
    /\ []((pc = "done" /\ timedOut) =>
             (breakInfo.cause = "timeout" /\ DOMAIN queued_tests # {}
              /\ Len(emitted) = breakInfo.emitted + Cardinality(DOMAIN queued_tests)))

\* a run has ended by a timeout although its jobs hit the transient fault
\* more often than any bound on it, and the pending invocation was reported
C30_Witness ==
    /\ pc = "done" /\ timedOut
    /\ Cardinality(flaked) > MaxFlakes
    /\ \E q \in DOMAIN queued_tests : str(q) \in flaked

\* ------------------------------------------------------------ C31
\* the ids of the client's message map, as the numbers the correlator uses
RunningIds == {int(k) : k \in DOMAIN running}
\* the ids of the results the reader has buffered and poll has not returned
BufferedIds == {int(results[i][1]) : i \in DOMAIN results}

\* C31: in every state the ids of XGE.running are ids of
\* XGEQueue.queued_tests, and every id with a buffered result that poll has
\* not yet returned is an id of queued_tests.
C31_PendingMapsConsistent ==
    backend = "xge" =>
        /\ RunningIds \subseteq DOMAIN queued_tests
        /\ BufferedIds \subseteq DOMAIN queued_tests

\* a state where the maps differ: the reader has taken one id out of running
\* and buffered its result, another id is in both maps, and a first result
\* has been correlated and removed from queued_tests already
C31_Witness ==
    /\ backend = "xge"
    /\ BufferedIds # {}
    /\ RunningIds # {}
    /\ RunningIds # DOMAIN queued_tests
    /\ Len(emitted) > 0
    /\ \E i \in DOMAIN issued : issued[i].retry

\* ------------------------------------------------------------ C32
\* test ids that occur in more than one group
SharedIds ==
    {t \in TestsOf(groups) :
        Cardinality({g \in DOMAIN groups : t \in SeqToSet(groups[g].test_ids)}) > 1}

\* the enqueue the step makes as a retry, if it makes one
Retries == Len(issued') = Len(issued) + 1 /\ Last(issued').retry

\* C32: the retry counter is keyed by the test id alone: over all groups in
\* which a test id occurs, the retry enqueues of that id never exceed
\* repeat_if_failed; and each retry is enqueued for the test id, the group
\* and the local/remote mode of the invocation whose failing result the
\* coordinator holds.
C32_RetryBudgetSharedByGroups ==
    /\ [](backend = "xge" => \A t \in TestsOf(groups) : RetriesOf(t) <= repeat_if_failed)
    /\ [][(backend = "xge" /\ Retries) =>
            LET failing == issued[EnqueueOf(int(result[1]))]
                retry == Last(issued')
            IN  /\ pc = "correlate" /\ result[2] # 0
                /\ retry.test = failing.test
                /\ retry.group = failing.group
                /\ retry.local = failing.local
                /\ retry.local = ~groups[failing.group].xge]_vars

\* the run is over; a shared id failed in two different groups, the first
\* failure used the whole budget and the failure in the other group was
\* not retried
C32_Witness ==
    /\ backend = "xge" /\ pc = "done" /\ repeat_if_failed = 1
    /\ \E t \in SharedIds :
          /\ RetriesOf(t) = 1
          /\ \E i, j \in FromLoop :
                /\ emitted[i][2] = t /\ emitted[j][2] = t
                /\ ~emitted[i][3].success /\ ~emitted[j][3].success
                /\ emitInfo[i].group # emitInfo[j].group
                /\ \E r \in DOMAIN issued :
                      issued[r].retry /\ issued[r].group = emitInfo[i].group
                      /\ ~issued[r].local
          /\ \A r \in DOMAIN issued :
                issued[r].retry => issued[r].test = t

\* ------------------------------------------------------------ C33
\* the retry enqueues and the failing results the result loop has yielded
RetryEnqueues == {i \in DOMAIN issued : issued[i].retry}
FailuresObserved == {j \in FromLoop : ~emitted[j][3].success}
\* the messages written to the socket for queue id q
SentFor(q) == {m \in sent : m.msg.wrap = str(q)}

\* C33: the step that handles a result with return code 0 makes no enqueue
\* and writes nothing to the socket; a retry is enqueued only in the step
\* that handles a failing result the reader has taken and poll has returned;
\* there are never more retry enqueues than failing results observed; and
\* the message of an id whose result was a success was written once, by the
\* coordinator, unless the farm answered it with the transient fault.
C33_SuccessNeverResubmitted ==
    /\ [][(backend = "xge" /\ pc = "correlate" /\ pc' # pc /\ result[2] = 0) =>
            (issued' = issued /\ sent' = sent /\ jobs' = jobs /\ repeats' = repeats)]_vars
    /\ [][(backend = "xge" /\ Retries) =>
            /\ pc = "correlate" /\ result[2] # 0 /\ ~IsFlake(result[3])
            /\ result[1] \in seen
            /\ polled # <<>> /\ Last(polled) = result[1]
            /\ Len(emitted') = Len(emitted) + 1 /\ ~Last(emitted')[3].success]_vars
    /\ [](backend = "xge" =>
            /\ Cardinality(RetryEnqueues) <= Cardinality(FailuresObserved)
            /\ \A j \in FromLoop :
                  (emitted[j][3].success /\ str(emitInfo[j].id) \notin flaked) =>
                      /\ Cardinality(SentFor(emitInfo[j].id)) = 1
                      /\ \A m \in SentFor(emitInfo[j].id) : m.by = "coordinator")

\* the run is over with retries allowed; one test succeeded at once and was
\* enqueued once, another failed and was retried
C33_Witness ==
    /\ backend = "xge" /\ pc = "done" /\ repeat_if_failed = 1
    /\ \E j \in FromLoop :
          /\ emitted[j][3].success
          /\ IssuedOf(emitted[j][2]) = 1
          /\ Cardinality(SentFor(emitInfo[j].id)) = 1
    /\ RetryEnqueues # {}
    /\ Cardinality(RetryEnqueues) = Cardinality(FailuresObserved) - 1

\* ------------------------------------------------------------ C34
\* the initial submissions, in the order they were enqueued
InitialSubmissions == SelectSeq(issued, LAMBDA e : ~e.retry)
\* mwtest.py:143 count_test_ids
RECURSIVE count_test_ids(_)
count_test_ids(gs) ==
    IF gs = <<>> THEN 0 ELSE Len(Head(gs).test_ids) + count_test_ids(Tail(gs))
\* the place of test id t in the list ids
PlaceIn(ids, t) == CHOOSE k \in DOMAIN ids : ids[k] = t

\* C34: once the coordinator has left the submission loop, and so before
\* poll returns a first result, every test id of every group has been
\* enqueued once; of two initial submissions the earlier one is never of a
\* distributed group when the later one is of a non-distributed group; two of
\* the same class are in the order of their groups in the list, and two of
\* the same group in the order of the group's test ids; each is submitted in
\* the mode of its group.
C34_SubmissionOrder ==
    backend = "xge" =>
        LET s == InitialSubmissions IN
        /\ (pc # "submit" \/ polled # <<>>) =>
              /\ Len(s) = count_test_ids(groups) /\ todo = <<>>
              /\ \A g \in DOMAIN groups : \A t \in SeqToSet(groups[g].test_ids) :
                    Cardinality({i \in DOMAIN s : s[i].group = g /\ s[i].test = t}) = 1
        /\ pc = "submit" => polled = <<>> /\ result = None /\ Len(s) = Len(issued)
        /\ \A i \in DOMAIN s : s[i].local = ~groups[s[i].group].xge
        /\ \A i, j \in DOMAIN s :
              i < j =>
                 /\ ~(groups[s[i].group].xge /\ ~groups[s[j].group].xge)
                 /\ groups[s[i].group].xge = groups[s[j].group].xge =>
                       s[i].group <= s[j].group
                 /\ s[i].group = s[j].group =>
                       PlaceIn(groups[s[i].group].test_ids, s[i].test)
                           < PlaceIn(groups[s[i].group].test_ids, s[j].test)

\* a first result has been polled in a run over three groups, of which the
\* second in the list is the only non-distributed one and was submitted first
C34_Witness ==
    /\ backend = "xge" /\ polled # <<>> /\ Len(groups) = 3
    /\ groups[1].xge /\ ~groups[2].xge /\ groups[3].xge
    /\ Len(InitialSubmissions) = 3
    /\ InitialSubmissions[1].group = 2
    /\ InitialSubmissions[2].group = 1
    /\ InitialSubmissions[3].group = 3

\* ------------------------------------------------------------ C35
\* the number of results emitted for group g
ResultsOfGroup(g) == Cardinality({i \in DOMAIN emitInfo : emitInfo[i].group = g})
\* every result of every group before g has been emitted
EarlierGroupsEmitted(g) ==
    \A h \in 1..(g - 1) : ResultsOfGroup(h) = Len(groups[h].test_ids)

\* C35: the Pool backend takes the groups one at a time in list order: when
\* an invocation of a group has been started, by run() or by a pool worker,
\* every result of every earlier group has been emitted; so the groups of
\* the started invocations and the groups of the emitted results never go
\* back in the list, whether the groups are parallel or not.
C35_PoolGroupsOneAtATime ==
    backend = "pool" =>
        /\ \A k \in DOMAIN started : EarlierGroupsEmitted(started[k][2])
        /\ \A k, l \in DOMAIN started : k < l => started[k][2] <= started[l][2]
        /\ \A i, j \in DOMAIN emitInfo : i < j => emitInfo[i].group <= emitInfo[j].group
        /\ gi > 0 => EarlierGroupsEmitted(gi)
        /\ \A w \in DOMAIN workers : workers[w] # <<>> => workers[w][1].group = gi
        /\ \A o \in DOMAIN outq : outq[o][1] = gi

\* an invocation of the second group has been started after a parallel first
\* group of two ids emitted its results out of list order
C35_Witness ==
    /\ backend = "pool" /\ Len(groups) = 2 /\ groups[1].parallel
    /\ \E k \in DOMAIN started : started[k][2] = 2
    /\ ResultsOfGroup(1) = 2
    /\ EmittedOfGroup(1) # groups[1].test_ids
    /\ ResultsOfGroup(2) = 1

\* ------------------------------------------------------------ C36
\* the ids of the results the reader has appended to the buffer
AppendedIds ==
    seen \ (IF readerPc \in {"del", "append"} THEN {readerLine[1]} ELSE {})
\* the ids of the buffered results, in the order of the buffer
BufferedSeq == [i \in DOMAIN results |-> results[i][1]]

AtLoopHead == (pc = "submit" /\ todo = <<>>) \/ pc = "loop"

\* C37: where the result loop tests has_tasks(), it is false exactly when
\* queued_tests is empty; so no poll is under way with queued_tests empty.
C37_HasTasksIffPending ==
    backend = "xge" =>
        /\ AtLoopHead => (has_tasks(queued_tests) <=> DOMAIN queued_tests # {})
        /\ pc \in PollPcs => DOMAIN queued_tests # {}

====
